---- MODULE Spec2Model ----
(***************************************************************************)
(* A model of the two engines of the analysis toolkit:                     *)
(*   - the syntactic pattern matcher (pattern/match.go), and               *)
(*   - the SSI lifting pass over the IR (go/ir/lift.go).                   *)
(* Every Go value is a record tagged by its field t, so that values of     *)
(* different Go types can be compared.                                     *)
(***************************************************************************)
EXTENDS Integers, Sequences, FiniteSets, TLC

VARIABLES
    m,        \* the Matcher: State, setBindings, bindingsMapping
    mpc,      \* position of the matcher's caller: "idle", "chosen", "matched", "panicked"
    pat,      \* the Pattern handed to Match (Root and Bindings)
    node,     \* the AST node handed to Match
    ret,      \* what the last Match call returned
    merr,     \* the panic the last Match call ended in, "none" if it returned
    calls,    \* number of Match calls made on this Matcher
    notLog,   \* history: the Not evaluations of the last Match call
    orLog,    \* history: the Or evaluations of the last Match call
    recallLog, \* history: the recalls of a bound name in the last Match call
    bindLog,  \* history: the Bindings that stored, or refused to store, in the last Match call
    popLog,   \* history: the pops of the last Match call
    gotypesalias, \* GODEBUG gotypesalias: does go/types materialise types.Alias
    function, \* the Function lift works on: Blocks, Locals, instructions, trees
    lpc,      \* position inside lift: "idle", the step done last, "done", "panic"
    lw,       \* the locals of lift: numAllocs, usesDefer, newPhis, newSigmas, ...
    runs,     \* number of lift calls begun on the function
    fn0,      \* history: the function as it was when the current call began
    rets,     \* history: what the lift calls returned, in order
    clock,    \* history: the number of steps the lift calls have taken
    ivl,      \* an interval of block indices, its words and what has reads from them
    bset      \* a BlockSet, with what its last operation returned and what was taken

mvars == <<m, mpc, pat, node, ret, merr, calls, notLog, orLog, recallLog, bindLog, popLog>>
lvars == <<function, lpc, lw, runs, fn0, rets, clock>>
hvars == <<ivl, bset>>

(***************************************************************************)
(* Go values                                                               *)
(***************************************************************************)
GoNil == [t |-> "nil"]
Str(s) == [t |-> "str", s |-> s]
Tok(k) == [t |-> "tok", k |-> k]
ObjV(id) == [t |-> "obj", id |-> id]
SliceV(et, es) == [t |-> "slice", et |-> et, isnil |-> FALSE, e |-> es]
NilSlice(et) == [t |-> "slice", et |-> et, isnil |-> TRUE, e |-> <<>>]
AstNode(k, f) == [t |-> "node", k |-> k, isnil |-> FALSE, f |-> f]
NilPtr(k) == [t |-> "node", k |-> k, isnil |-> TRUE, f |-> <<>>]
Unbound == [t |-> "unbound"]

\* go/ast: the fields of each node kind that are not positions, legacy
\* objects or comment groups, in declaration order.
AstFields(k) ==
    CASE k = "Ident" -> <<"Name">>
      [] k = "BasicLit" -> <<"Kind", "Value">>
      [] k = "BinaryExpr" -> <<"X", "Op", "Y">>
      [] k = "UnaryExpr" -> <<"Op", "X">>
      [] k = "CallExpr" -> <<"Fun", "Args">>
      [] k = "SelectorExpr" -> <<"X", "Sel">>
      [] k = "IndexExpr" -> <<"X", "Index">>
      [] k = "IndexListExpr" -> <<"X", "Indices">>
      [] k = "ParenExpr" -> <<"X">>
      [] k = "ExprStmt" -> <<"X">>
      [] k = "BlockStmt" -> <<"List">>
      [] k = "IfStmt" -> <<"Init", "Cond", "Body", "Else">>
      [] OTHER -> <<>>

ExprKinds == {"Ident", "BasicLit", "BinaryExpr", "UnaryExpr", "CallExpr",
              "SelectorExpr", "IndexExpr", "IndexListExpr", "ParenExpr"}
StmtKinds == {"ExprStmt", "BlockStmt", "IfStmt"}

IsAstNode(v) == v.t = "node"
IsExpr(v) == v.t = "node" /\ v.k \in ExprKinds
IsStmt(v) == v.t = "node" /\ v.k \in StmtKinds
IsField(v) == v.t = "node" /\ v.k = "Field"
CastsTo(v, et) ==
    CASE et = "Expr" -> IsExpr(v)
      [] et = "Stmt" -> IsStmt(v)
      [] OTHER -> IsField(v)

(***************************************************************************)
(* Pattern nodes                                                           *)
(***************************************************************************)
\* the Any variant (Any is taken by the TLC module)
AnyNode == [t |-> "pat", p |-> "Any"]
Nil == [t |-> "pat", p |-> "Nil"]
String(s) == [t |-> "pat", p |-> "String", s |-> s]
Token(k) == [t |-> "pat", p |-> "Token", k |-> k]
List(h, tl) == [t |-> "pat", p |-> "List", Head |-> h, Tail |-> tl]
Binding(name, idx, sub) == [t |-> "pat", p |-> "Binding", Name |-> name, idx |-> idx, Node |-> sub]
Or(nodes) == [t |-> "pat", p |-> "Or", Nodes |-> nodes]
Not(n) == [t |-> "pat", p |-> "Not", Node |-> n]
Symbol(name) == [t |-> "pat", p |-> "Symbol", Name |-> name]
Object(name) == [t |-> "pat", p |-> "Object", Name |-> name]
Builtin(name) == [t |-> "pat", p |-> "Builtin", Name |-> name]
\* a pattern mirroring an AST node kind; f maps its field names to patterns
PNode(k, f) == [t |-> "pat", p |-> "Node", k |-> k, f |-> f]
EmptyList == List(GoNil, GoNil)

IsPattern(v) == v.t = "pat"
\* the variants that implement the matcher interface
IsMatcher(v) == v.t = "pat" /\ v.p # "Node"

tokensByString ==
    [s \in {"INT", "FLOAT", "IMAG", "CHAR", "STRING", "+", "-", "*", "/", "%",
            "&", "|", "^", "<<", ">>", "&^", "+=", "-=", "*=", "/=", "%=",
            "&=", "|=", "^=", "<<=", ">>=", "&^=", "&&", "||", "<-", "++",
            "--", "==", "<", ">", "=", "!", "!=", "<=", ">=", ":=", "...",
            "IMPORT", "VAR", "TYPE", "CONST", "BREAK", "CONTINUE", "GOTO",
            "FALLTHROUGH"} |->
        CASE s = "+" -> "ADD" [] s = "-" -> "SUB" [] s = "*" -> "MUL"
          [] s = "/" -> "QUO" [] s = "%" -> "REM" [] s = "&" -> "AND"
          [] s = "|" -> "OR" [] s = "^" -> "XOR" [] s = "<<" -> "SHL"
          [] s = ">>" -> "SHR" [] s = "&^" -> "AND_NOT"
          [] s = "+=" -> "ADD_ASSIGN" [] s = "-=" -> "SUB_ASSIGN"
          [] s = "*=" -> "MUL_ASSIGN" [] s = "/=" -> "QUO_ASSIGN"
          [] s = "%=" -> "REM_ASSIGN" [] s = "&=" -> "AND_ASSIGN"
          [] s = "|=" -> "OR_ASSIGN" [] s = "^=" -> "XOR_ASSIGN"
          [] s = "<<=" -> "SHL_ASSIGN" [] s = ">>=" -> "SHR_ASSIGN"
          [] s = "&^=" -> "AND_NOT_ASSIGN" [] s = "&&" -> "LAND"
          [] s = "||" -> "LOR" [] s = "<-" -> "ARROW" [] s = "++" -> "INC"
          [] s = "--" -> "DEC" [] s = "==" -> "EQL" [] s = "<" -> "LSS"
          [] s = ">" -> "GTR" [] s = "=" -> "ASSIGN" [] s = "!" -> "NOT"
          [] s = "!=" -> "NEQ" [] s = "<=" -> "LEQ" [] s = ">=" -> "GEQ"
          [] s = ":=" -> "DEFINE" [] s = "..." -> "ELLIPSIS"
          [] OTHER -> s]

\* maybeToken: the Token a String pattern names, if any
maybeToken(n) ==
    IF n.p = "String" /\ n.s \in DOMAIN tokensByString
    THEN [node |-> Token(tokensByString[n.s]), ok |-> TRUE]
    ELSE [node |-> n, ok |-> FALSE]

isNil(v) == v = GoNil \/ v = Nil

(***************************************************************************)
(* The type checker's results (types.Info), read-only during matching      *)
(***************************************************************************)
\* longest chain of alias declarations A1 = A2 = ... = An = T in the universe
MaxAliasChain == 3
\* width of one binding frame word (setBindings []uint64)
WordBits == 64

AliasName(c, i) == "pkg." \o c \o ToString(i)
\* Three chains of aliases: chain "A" ends in the defined type pkg.T, chain
\* "B" in the basic type int, chain "C" in an unnamed struct type.
Chains == {"A", "B", "C"}
AliasIds == {<<c, i>> : c \in Chains, i \in 1..MaxAliasChain}

\* go/types objects: kind, the string types.TypeString gives for the object's
\* type, whether it is declared at package level, and for a type name
\* whether it is an alias and what types.Unalias of its type is.
ObjectIds == AliasIds \cup {<<"T", 0>>, <<"int", 0>>, <<"foo", 0>>, <<"bar", 0>>, <<"f", 0>>, <<"nil", 0>>}
Unaliased(c) ==
    CASE c = "A" -> [kind |-> "Named", obj |-> <<"T", 0>>, name |-> "pkg.T"]
      [] c = "B" -> [kind |-> "Basic", obj |-> <<"int", 0>>, name |-> "int"]
      [] OTHER -> [kind |-> "Struct", obj |-> <<"int", 0>>, name |-> "struct{}"]
TypeObject(id) ==
    CASE id \in AliasIds ->
           [kind |-> "TypeName", IsAlias |-> TRUE, pkgLevel |-> TRUE,
            TypeString |-> AliasName(id[1], id[2]), Unalias |-> Unaliased(id[1]),
            FullName |-> AliasName(id[1], id[2])]
      [] id = <<"T", 0>> ->
           [kind |-> "TypeName", IsAlias |-> FALSE, pkgLevel |-> TRUE,
            TypeString |-> "pkg.T", Unalias |-> [kind |-> "Named", obj |-> id, name |-> "pkg.T"],
            FullName |-> "pkg.T"]
      [] id = <<"int", 0>> ->
           [kind |-> "TypeName", IsAlias |-> FALSE, pkgLevel |-> TRUE,
            TypeString |-> "int", Unalias |-> [kind |-> "Basic", obj |-> id, name |-> "int"],
            FullName |-> "int"]
      [] id = <<"f", 0>> ->
           [kind |-> "Func", IsAlias |-> FALSE, pkgLevel |-> TRUE,
            TypeString |-> "func()", Unalias |-> [kind |-> "Signature", obj |-> id, name |-> "func()"],
            FullName |-> "pkg.f"]
      [] id = <<"nil", 0>> ->
           [kind |-> "Nil", IsAlias |-> FALSE, pkgLevel |-> TRUE,
            TypeString |-> "untyped nil", Unalias |-> [kind |-> "Basic", obj |-> id, name |-> "untyped nil"],
            FullName |-> "nil"]
      [] OTHER ->
           [kind |-> "Var", IsAlias |-> FALSE, pkgLevel |-> TRUE,
            TypeString |-> "int", Unalias |-> [kind |-> "Basic", obj |-> <<"int", 0>>, name |-> "int"],
            FullName |-> "pkg." \o id[1]]

\* the identifier that denotes an object in the checked package
IdentOf(id) == IF id \in AliasIds THEN id[1] \o ToString(id[2]) ELSE id[1]
\* TypesInfo.ObjectOf: nil for an identifier the checker knows nothing of
ObjectOf(ident) ==
    IF ident.t = "node" /\ ~ident.isnil /\ ident.k = "Ident"
       /\ \E id \in ObjectIds : Str(IdentOf(id)) = ident.f.Name
    THEN ObjV(CHOOSE id \in ObjectIds : Str(IdentOf(id)) = ident.f.Name)
    ELSE GoNil

(***************************************************************************)
(* Matcher state: set, push, pop, merge                                    *)
(***************************************************************************)
\* the names of a pattern that has one name more than a frame has bits: "x"
\* and "y" first, "z" last, with index WordBits
WideName(i) ==
    IF i = 1 THEN "x" ELSE IF i = 2 THEN "y"
    ELSE IF i = WordBits + 1 THEN "z" ELSE "v" \o ToString(i - 1)
WideBindings == [i \in 1..(WordBits + 1) |-> WideName(i)]
\* longest sequence of expressions among the AST nodes matched against
MaxListLen == 2
\* the keys m.State can have: a list pattern stores one name per element of
\* the list it is matched against, so of the names before the last only the
\* first MaxListLen can be stored under
BindingNames == {WideName(i) : i \in 1..(MaxListLen + 1)} \cup {WideName(WordBits + 1)}
NoBindings == [n \in BindingNames |-> Unbound]

R(ms, val, ok) == [m |-> ms, val |-> val, ok |-> ok, err |-> "none"]
Panic(ms, why) == [m |-> ms, val |-> GoNil, ok |-> FALSE, err |-> why]

\* 1 << i evaluated in a uint64: the set of bit positions that are set
Bit(i) == IF i < WordBits THEN {i} ELSE {}

\* ms.named (history) keeps for each frame the names set while it was the
\* top frame
set(ms, b, value) ==
    [ms EXCEPT !.State[b.Name] = value,
               !.setBindings[Len(ms.setBindings)] = @ \cup Bit(b.idx),
               !.named = [@ EXCEPT ![Len(@)] = @ \cup {b.Name}]]

push(ms) == [ms EXCEPT !.setBindings = Append(@, {}), !.named = Append(@, {})]

\* ms.popLog (history) keeps of each pop the names of the frame and the
\* bindings map the pop left
pop(ms) ==
    LET top == ms.setBindings[Len(ms.setBindings)]
        gone == {ms.bindingsMapping[i + 1] :
                    i \in {j \in 0..(Len(ms.bindingsMapping) - 1) : top \cap Bit(j) # {}}}
        State == [n \in DOMAIN ms.State |-> IF top # {} /\ n \in gone THEN Unbound ELSE ms.State[n]]
    IN [ms EXCEPT !.State = State,
                  !.setBindings = SubSeq(@, 1, Len(@) - 1),
                  !.popLog = @ \cup {[named |-> ms.named[Len(ms.named)], after |-> State]},
                  !.named = SubSeq(@, 1, Len(@) - 1)]

\* a merge that leaves the frame on the stack
mergeKeeps(ms) == ms
merge(ms) == [ms EXCEPT !.setBindings = SubSeq(@, 1, Len(@) - 1),
                         !.named = SubSeq(@, 1, Len(@) - 1)]

(***************************************************************************)
(* match and the variants' Match methods.  Each takes the matcher state    *)
(* and returns R(state, value, ok), or Panic(state, why) when the Go code  *)
(* panics; a panic ends the evaluation with the state as it then is.       *)
(***************************************************************************)
UniverseLookup(name) ==
    IF name \in {Str("int"), Str("nil")} THEN ObjV(<<name.s, 0>>) ELSE GoNil

RECURSIVE match(_, _, _)
RECURSIVE matchNodeAST(_, _, _)
RECURSIVE matchNodeFields(_, _, _, _)
RECURSIVE matchAST(_, _, _)
RECURSIVE matchASTFields(_, _, _, _)
RECURSIVE matchElems(_, _, _, _)
RECURSIVE matchSlices(_, _, _, _)
RECURSIVE BindingMatch(_, _, _)
RECURSIVE ListMatch(_, _, _)
RECURSIVE StringMatch(_, _, _)
RECURSIVE BuiltinMatch(_, _, _)
RECURSIVE ObjectMatch(_, _, _)
RECURSIVE SymbolMatch(_, _, _)
RECURSIVE SymbolTypeName(_, _, _, _)
RECURSIVE OrMatch(_, _, _)
RECURSIVE OrLoop(_, _, _, _)
RECURSIVE NotMatch(_, _, _)

AnyMatch(ms, n) == R(ms, n, TRUE)

TokenMatch(ms, tok, n) ==
    IF n.t # "tok" THEN R(ms, GoNil, FALSE) ELSE R(ms, n, tok.k = n.k)

NilMatch(ms, n) ==
    IF isNil(n) THEN R(ms, GoNil, TRUE)
    ELSE IF n.t \in {"node", "slice"} THEN R(ms, GoNil, n.isnil)
    ELSE R(ms, GoNil, FALSE)

StringMatch(ms, s, n) ==
    CASE n.t = "tok" ->
           IF maybeToken(s).ok THEN match(ms, maybeToken(s).node, n)
           ELSE R(ms, GoNil, FALSE)
      [] n.t = "str" -> R(ms, n, s.s = n.s)
      [] n.t = "tv" -> R(ms, n, n.Value # "" /\ n.Value = s.s)
      [] OTHER -> R(ms, GoNil, FALSE)

BindingMatch(ms, b, n) ==
    IF isNil(b.Node) /\ ms.State[b.Name] # Unbound
    THEN \* recall the value
         LET r == match(ms, ms.State[b.Name], n) IN
         [r EXCEPT !.m.recallLog = @ \cup {[bound |-> ms.State[b.Name], node |-> n,
                                            ok |-> r.ok, err |-> r.err]}]
    ELSE LET sub == IF isNil(b.Node) THEN AnyNode ELSE b.Node
             \* what the history keeps of this evaluation: the name's value
             \* on entry, and its value when set is called
             entry(stored, before, err) ==
                 [name |-> b.Name, sub |-> ~isNil(b.Node), entry |-> ms.State[b.Name],
                  stored |-> stored, before |-> before, err |-> err]
         IN
         IF ms.State[b.Name] # Unbound
         THEN LET p == Panic(ms, "binding already created") IN
              [p EXCEPT !.m.bindLog = @ \cup {entry(FALSE, Unbound, p.err)}]
         ELSE LET r == match(ms, sub, n) IN
              IF r.err # "none" THEN r
              ELSE IF r.ok
              THEN LET out == R(set(r.m, b, r.val), r.val, TRUE) IN
                   [out EXCEPT !.m.bindLog = @ \cup {entry(TRUE, r.m.State[b.Name], "none")}]
              ELSE r

\* a List that takes an untyped nil for an empty sequence
ListMatchLoose(ms, l, n) ==
    IF n.t = "slice" \/ isNil(n)
    THEN IF isNil(l.Head) THEN R(ms, n, isNil(n) \/ Len(n.e) = 0)
         ELSE IF isNil(n) \/ Len(n.e) = 0 THEN R(ms, GoNil, FALSE)
         ELSE LET r1 == match(ms, l.Head, n.e[1]) IN
              IF r1.err # "none" THEN r1
              ELSE LET r2 == match(r1.m, l.Tail, SliceV(n.et, Tail(n.e))) IN
                   IF r2.err # "none" THEN r2
                   ELSE R(r2.m, n, r1.ok /\ r2.ok)
    ELSE R(ms, GoNil, FALSE)

ListMatch(ms, l, n) ==
    IF n.t = "slice"
    THEN IF isNil(l.Head) THEN R(ms, n, Len(n.e) = 0)
         ELSE IF Len(n.e) = 0 THEN R(ms, GoNil, FALSE)
         ELSE LET r1 == match(ms, l.Head, n.e[1]) IN
              IF r1.err # "none" THEN r1
              ELSE LET r2 == match(r1.m, l.Tail, SliceV(n.et, Tail(n.e))) IN
                   IF r2.err # "none" THEN r2
                   ELSE R(r2.m, n, r1.ok /\ r2.ok)
    ELSE R(ms, GoNil, FALSE)

BuiltinMatch(ms, b, n) ==
    LET r == match(ms, PNode("Ident", [Name |-> b.Name]), n) IN
    IF r.err # "none" \/ ~r.ok THEN [r EXCEPT !.val = GoNil]
    ELSE IF ObjectOf(r.val) # UniverseLookup(r.val.f.Name) THEN R(r.m, GoNil, FALSE)
    ELSE R(r.m, r.val, TRUE)

ObjectMatch(ms, o, n) ==
    LET r == match(ms, PNode("Ident", [Name |-> o.Name]), n) IN
    IF r.err # "none" \/ ~r.ok THEN [r EXCEPT !.val = GoNil]
    ELSE LET r2 == match(r.m, o.Name, r.val.f.Name) IN
         IF r2.err # "none" THEN r2
         ELSE R(r2.m, ObjectOf(r.val), r2.ok)

\* the loop over a TypeName and the types its alias declarations lead to
SymbolTypeName(ms, fn, origObj, obj) ==
    LET o == TypeObject(obj.id) IN
    IF ~o.pkgLevel THEN R(ms, GoNil, FALSE)
    ELSE LET name == IF o.IsAlias /\ ~gotypesalias THEN o.Unalias.name ELSE o.TypeString
             r == match(ms, fn.Name, Str(name))
         IN
         IF r.err # "none" THEN r
         ELSE IF r.ok \/ ~o.IsAlias THEN R(r.m, origObj, r.ok)
         ELSE CASE o.Unalias.kind = "Named" ->
                     SymbolTypeName(r.m, fn, origObj, ObjV(o.Unalias.obj))
                [] o.Unalias.kind = "Basic" ->
                     match(r.m, fn.Name, Str(o.Unalias.name))
                [] OTHER -> R(r.m, GoNil, FALSE)

SymbolBase == <<PNode("Ident", [Name |-> AnyNode]),
                PNode("SelectorExpr", [X |-> AnyNode, Sel |-> AnyNode])>>
SymbolExpr ==
    Or(SymbolBase \o <<PNode("IndexExpr", [X |-> Or(SymbolBase), Index |-> AnyNode]),
                       PNode("IndexListExpr", [X |-> Or(SymbolBase), Indices |-> AnyNode])>>)

\* astutil.Unparen
RECURSIVE Unparen(_)
Unparen(e) == IF e.t = "node" /\ ~e.isnil /\ e.k = "ParenExpr" THEN Unparen(e.f.X) ELSE e

SymbolMatch(ms, fn, n) ==
    LET r == match(ms, SymbolExpr, n) IN
    IF r.err # "none" \/ ~r.ok THEN [r EXCEPT !.val = GoNil]
    ELSE LET fun == Unparen(IF r.val.k \in {"IndexExpr", "IndexListExpr"} THEN r.val.f.X ELSE r.val)
             obj == IF fun.k = "Ident" THEN ObjectOf(fun) ELSE ObjectOf(fun.f.Sel)
             o == TypeObject(obj.id)
         IN
         IF fun.k \notin {"Ident", "SelectorExpr"} THEN Panic(r.m, "unreachable")
         ELSE IF obj = GoNil THEN R(r.m, GoNil, FALSE)
         ELSE IF o.kind = "TypeName" THEN SymbolTypeName(r.m, fn, obj, obj)
         ELSE IF o.kind \in {"Func", "Builtin"} \/ (o.kind \in {"Var", "Const"} /\ o.pkgLevel)
         THEN LET r2 == match(r.m, fn.Name, Str(o.FullName)) IN
              IF r2.err # "none" THEN r2 ELSE R(r2.m, obj, r2.ok)
         ELSE R(r.m, GoNil, FALSE)

\* the loop of Or.Match from alternative i on
OrLoop(ms, or, n, i) ==
    IF i > Len(or.Nodes) THEN R(ms, GoNil, FALSE)
    ELSE LET r == match(push(ms), or.Nodes[i], n) IN
         IF r.err # "none" THEN r
         ELSE IF r.ok THEN R(merge(r.m), r.val, TRUE)
         ELSE OrLoop(pop(r.m), or, n, i + 1)

OrMatch(ms, or, n) ==
    LET r == OrLoop(ms, or, n, 1) IN
    [r EXCEPT !.m.orLog = @ \cup {[State |-> ms.State, or |-> or, node |-> n,
                                   after |-> r.m.State, ok |-> r.ok, val |-> r.val,
                                   err |-> r.err]}]

NotMatch(ms, not, n) ==
    LET r == match(ms, not.Node, n)
        out == IF r.err # "none" THEN r
               ELSE IF r.ok THEN R(r.m, GoNil, FALSE)
               ELSE R(r.m, n, TRUE)
    IN [out EXCEPT !.m.notLog = @ \cup {[State |-> ms.State, not |-> not, node |-> n,
                                         after |-> r.m.State, ok |-> out.ok,
                                         err |-> r.err]}]

\* the element-wise comparison of two sequences of equal length
matchElems(ms, ln, rn, i) ==
    IF i > Len(ln) THEN R(ms, GoNil, TRUE)
    ELSE LET r == match(ms, ln[i], rn[i]) IN
         IF r.err # "none" \/ ~r.ok THEN [r EXCEPT !.val = GoNil]
         ELSE matchElems(r.m, ln, rn, i + 1)

\* one of the three blocks of match that handle []ast.Expr, []ast.Stmt and
\* []*ast.Field: et is the element type of the block
matchSlices(ms, l, r, et) ==
    LET ok1 == l.t = "slice" /\ l.et = et
        ok2 == r.t = "slice" /\ r.et = et
    IN
    IF ok1 /\ ~ok2 /\ ~CastsTo(r, et) THEN R(ms, GoNil, FALSE)
    ELSE IF ~ok1 /\ ok2 /\ ~CastsTo(l, et) THEN R(ms, GoNil, FALSE)
    ELSE LET ln == IF ok1 THEN l.e ELSE <<l>>
             rn == IF ok2 THEN r.e ELSE <<r>>
         IN
         IF Len(ln) # Len(rn) THEN R(ms, GoNil, FALSE)
         ELSE LET res == matchElems(ms, ln, rn, 1) IN
              IF res.err # "none" \/ ~res.ok THEN res
              ELSE R(res.m, r, TRUE)

matchNodeFields(ms, a, b, i) ==
    LET names == AstFields(a.k) IN
    IF i > Len(names) THEN R(ms, b, TRUE)
    ELSE IF names[i] \notin DOMAIN b.f THEN Panic(ms, "could not find field")
    ELSE LET ai == a.f[names[i]]
             bi == b.f[names[i]]
         IN
         IF ai = GoNil THEN R(ms, b, bi = GoNil)
         ELSE LET r == match(ms, ai, bi) IN
              IF r.err # "none" THEN r
              ELSE IF ~r.ok THEN R(r.m, b, FALSE)
              ELSE matchNodeFields(r.m, a, b, i + 1)

\* Match a Node with an AST node
matchNodeAST(ms, a, b) ==
    CASE b.t = "slice" ->
           IF Len(b.e) # 1 THEN R(ms, GoNil, FALSE) ELSE match(ms, a, b.e[1])
      [] b.t = "node" ->
           IF b.isnil THEN Panic(ms, "reflect: call of Type on zero Value")
           ELSE IF a.k # b.k THEN R(ms, GoNil, FALSE)
           ELSE matchNodeFields(ms, a, b, 1)
      [] b.t = "nil" -> R(ms, GoNil, a = Nil)
      [] b.t \in {"str", "tok"} -> R(ms, GoNil, FALSE)
      [] OTHER -> Panic(ms, "unhandled type")

matchASTFields(ms, a, b, i) ==
    LET names == AstFields(a.k) IN
    IF i > Len(names) THEN R(ms, b, TRUE)
    ELSE LET af == a.f[names[i]]
             bf == b.f[names[i]]
         IN
         CASE af.t = "slice" ->
                IF Len(af.e) # Len(bf.e) THEN R(ms, GoNil, FALSE)
                ELSE LET r == matchElems(ms, af.e, bf.e, 1) IN
                     IF r.err # "none" \/ ~r.ok THEN r
                     ELSE matchASTFields(r.m, a, b, i + 1)
           [] af.t \in {"str", "tok"} ->
                IF af # bf THEN R(ms, GoNil, FALSE)
                ELSE matchASTFields(ms, a, b, i + 1)
           [] OTHER ->
                LET r == match(ms, af, bf) IN
                IF r.err # "none" \/ ~r.ok THEN [r EXCEPT !.val = GoNil]
                ELSE matchASTFields(r.m, a, b, i + 1)

\* Match two AST nodes
matchAST(ms, a, b) ==
    IF a.k # b.k THEN R(ms, GoNil, FALSE)
    ELSE IF a.isnil \/ b.isnil THEN R(ms, b, a.isnil = b.isnil)
    ELSE matchASTFields(ms, a, b, 1)

\* the nodes match looks through, on either side
Transparent == {"ParenExpr", "ExprStmt", "DeclStmt", "LabeledStmt", "BlockStmt", "FieldList"}
Inner(v) ==
    CASE v.k \in {"ParenExpr", "ExprStmt"} -> v.f.X
      [] v.k = "DeclStmt" -> v.f.Decl
      [] v.k = "LabeledStmt" -> v.f.Stmt
      [] OTHER -> v.f.List

\* Match two items, which may be (Node, AST) or (AST, AST)
match(ms, l, r) ==
    IF IsPattern(r) THEN Panic(ms, "Node mustn't be on right side of match")
    ELSE IF l.t = "node" /\ l.k \in Transparent
    THEN IF l.isnil
         THEN IF l.k = "FieldList" THEN match(ms, GoNil, r)
              ELSE Panic(ms, "nil pointer dereference")
         ELSE match(ms, Inner(l), r)
    ELSE IF r.t = "node" /\ r.k \in Transparent
    THEN IF r.isnil
         THEN IF r.k \in {"BlockStmt", "FieldList"} THEN match(ms, l, GoNil)
              ELSE Panic(ms, "nil pointer dereference")
         ELSE match(ms, l, Inner(r))
    ELSE IF r.t = "node" /\ r.k = "BasicLit" /\ r.isnil THEN match(ms, l, GoNil)
    ELSE IF IsMatcher(l)
    THEN CASE l.p = "Binding" -> BindingMatch(ms, l, r)
           [] l.p = "Any" -> AnyMatch(ms, r)
           [] l.p = "List" -> ListMatch(ms, l, r)
           [] l.p = "String" -> StringMatch(ms, l, r)
           [] l.p = "Token" -> TokenMatch(ms, l, r)
           [] l.p = "Nil" -> NilMatch(ms, r)
           [] l.p = "Builtin" -> BuiltinMatch(ms, l, r)
           [] l.p = "Object" -> ObjectMatch(ms, l, r)
           [] l.p = "Symbol" -> SymbolMatch(ms, l, r)
           [] l.p = "Or" -> OrMatch(ms, l, r)
           [] OTHER -> NotMatch(ms, l, r)
    ELSE IF IsPattern(l) THEN matchNodeAST(ms, l, r)
    ELSE IF l = GoNil \/ r = GoNil THEN R(ms, GoNil, l = r)
    ELSE IF IsAstNode(l) /\ IsAstNode(r) THEN matchAST(ms, l, r)
    ELSE IF l.t = "obj"
    THEN IF r.t = "node" /\ r.k = "Ident" THEN R(ms, l, l = ObjectOf(r))
         ELSE IF r.t = "node" /\ r.k = "SelectorExpr" THEN R(ms, l, l = ObjectOf(r.f.Sel))
         ELSE R(ms, l, FALSE)
    ELSE IF (l.t = "slice" /\ l.et = "Expr") \/ (r.t = "slice" /\ r.et = "Expr")
    THEN matchSlices(ms, l, r, "Expr")
    ELSE IF (l.t = "slice" /\ l.et = "Stmt") \/ (r.t = "slice" /\ r.et = "Stmt")
    THEN matchSlices(ms, l, r, "Stmt")
    ELSE IF (l.t = "slice" /\ l.et = "Field") \/ (r.t = "slice" /\ r.et = "Field")
    THEN matchSlices(ms, l, r, "Field")
    ELSE R(ms, GoNil, FALSE)

(***************************************************************************)
(* Matcher.Match and the inputs it is exercised on                         *)
(***************************************************************************)
\* most Match calls made in a row on one Matcher
MaxCalls == 2

Ident(name) == AstNode("Ident", [Name |-> Str(name)])
BinaryExpr(x, op, y) == AstNode("BinaryExpr", [X |-> x, Op |-> Tok(op), Y |-> y])
CallExpr(fun, args) == AstNode("CallExpr", [Fun |-> fun, Args |-> SliceV("Expr", args)])
ParenExpr(x) == AstNode("ParenExpr", [X |-> x])

Idents == {Ident("foo"), Ident("bar")}
\* identifiers that denote types and functions of the checked package
TypeIdents == {Ident("A1"), Ident("B1"), Ident("C1"), Ident("T"), Ident("int"), Ident("f")}
RECURSIVE SeqsUpTo(_, _)
SeqsUpTo(S, n) ==
    IF n = 0 THEN {<<>>}
    ELSE LET shorter == SeqsUpTo(S, n - 1) IN
         shorter \cup {Append(q, e) : q \in {z \in shorter : Len(z) = n - 1}, e \in S}

\* what stands where a list may be absent or empty: no block (an if without
\* else), a block or a call the parser found nothing in (a nil List, nil
\* Args), a block with an empty non-nil List, no field list
Absent ==
    {NilPtr("BlockStmt"), NilPtr("FieldList"),
     AstNode("BlockStmt", [List |-> NilSlice("Stmt")]),
     AstNode("BlockStmt", [List |-> SliceV("Stmt", <<>>)]),
     AstNode("CallExpr", [Fun |-> Ident("foo"), Args |-> NilSlice("Expr")])}

\* the AST values Match is called on
AstNodes ==
    Idents
    \cup {BinaryExpr(Ident("foo"), "ADD", y) : y \in Idents}
    \cup {ParenExpr(Ident("foo")), GoNil, NilSlice("Expr")}
    \cup {SliceV("Expr", q) : q \in SeqsUpTo(Idents, MaxListLen)}
    \cup {CallExpr(Ident("foo"), <<Ident("foo"), Ident("bar")>>)}
    \cup TypeIdents
    \cup {CallExpr(Ident("A1"), <<Ident("foo")>>), ParenExpr(Ident("A1"))}
    \cup {BinaryExpr(BinaryExpr(Ident("foo"), "ADD", Ident("bar")), op, Ident("foo")) :
            op \in {"ADD", "SUB"}}
    \cup Absent

BindX == Binding("x", 0, AnyNode)
UseX == Binding("x", 0, GoNil)
UseY == Binding("y", 1, GoNil)
PIdent(n) == PNode("Ident", [Name |-> n])

\* the patterns: atoms, one level of Not/List/Or over atoms, and a second
\* level over those
PatAtoms == {AnyNode, Nil, UseX, UseY, BindX, PIdent(UseX), PIdent(String("foo")),
             Binding("x", 0, PIdent(AnyNode)), Object(UseX)}
PatTails == {AnyNode, EmptyList, Nil, UseX, List(UseX, AnyNode), List(Nil, AnyNode)}
PatLevel1 ==
    PatAtoms
    \cup {Not(a) : a \in PatAtoms}
    \cup {List(a, b) : a \in PatAtoms, b \in PatTails}
    \cup {Or(<<a, b>>) : a \in PatAtoms, b \in PatAtoms}
    \cup {Or(<<a>>) : a \in PatAtoms}
PatLevel2 ==
    PatLevel1
    \cup {Not(q) : q \in PatLevel1}
    \cup {Or(<<q, a>>) : q \in PatLevel1, a \in {AnyNode, UseX, PIdent(UseX)}}
    \cup {List(q, b) : q \in PatLevel1, b \in PatTails}
    \cup {PNode("BinaryExpr", [X |-> a, Op |-> o, Y |-> b]) :
            a \in PatAtoms, o \in {AnyNode, UseY, String("+")}, b \in PatAtoms}
    \cup {PNode("CallExpr", [Fun |-> a, Args |-> b]) : a \in PatAtoms, b \in PatTails \cup {UseY}}
\* an alternative that binds inside a nested Or and then fails
PatLevel3 ==
    {Or(<<List(Or(<<a>>), b), c>>) :
        a \in {BindX, Binding("x", 0, PIdent(AnyNode))}, b \in PatTails, c \in {AnyNode, UseX, BindX}}
    \cup {Or(<<Not(Or(<<a, b>>)), c>>) :
        a \in {BindX, PIdent(UseX)}, b \in {AnyNode, Nil}, c \in {AnyNode, UseX, BindX}}
\* a token bound in one operator position and recalled in another
PatTokens ==
    {PNode("BinaryExpr", [X |-> PNode("BinaryExpr", [X |-> AnyNode, Op |-> o, Y |-> AnyNode]),
                          Op |-> u, Y |-> AnyNode]) :
        o \in {BindX, Binding("x", 0, Token("ADD")), String("+"), Token("SUB")},
        u \in {UseX, Token("ADD"), String("-")}}
\* an object bound by one operand and recalled by the other
PatObjects ==
    {PNode("BinaryExpr", [X |-> Binding("x", 0, o), Op |-> AnyNode, Y |-> UseX]) :
        o \in {Object(AnyNode), Object(String("foo")), Symbol(AnyNode)}}
\* the names Symbol and Builtin patterns are written with
SymbolNames ==
    {AliasName(id[1], id[2]) : id \in AliasIds} \cup {"pkg.T", "int", "struct{}", "pkg.f", "pkg.foo"}
PatSymbols ==
    {Symbol(String(s)) : s \in SymbolNames}
    \cup {PNode("CallExpr", [Fun |-> Symbol(String(s)), Args |-> AnyNode]) : s \in SymbolNames}
    \cup {Symbol(BindX), Builtin(String("int")), Builtin(String("foo")), Builtin(BindX),
          Object(String("foo")), Object(BindX)}
\* the empty list, alone and bound
PatLists == {EmptyList, Binding("x", 0, EmptyList)}
\* a Binding whose sub-pattern mentions the Binding's own name
PatNested == {Binding("x", 0, PIdent(UseX)), Binding("x", 0, List(UseX, AnyNode)),
              Binding("x", 0, Binding("x", 0, AnyNode))}
\* a list pattern that binds the names of WideBindings from the i-th on, all
\* but the last, one per element
RECURSIVE BindRest(_)
BindRest(i) ==
    IF i > WordBits THEN EmptyList
    ELSE List(Binding(WideName(i), i - 1, AnyNode), BindRest(i + 1))
BindZ == Binding("z", WordBits, AnyNode)
UseZ == Binding("z", WordBits, GoNil)
\* patterns of WordBits + 1 names: the first alternative binds the names a
\* frame has bits for, the second binds the last name and goes on
PatWide ==
    {Or(<<BindRest(1), List(BindZ, t), last>>) :
        t \in {AnyNode, EmptyList, List(Nil, AnyNode)}, last \in {AnyNode, Nil, UseZ, BindZ}}
Patterns ==
    {[Root |-> q, Bindings |-> <<"x", "y">>] :
        q \in PatLevel2 \cup PatLevel3 \cup PatTokens \cup PatObjects \cup PatSymbols
               \cup PatLists \cup PatNested}
    \cup {[Root |-> q, Bindings |-> WideBindings] : q \in PatWide}

NewMatcher == [State |-> NoBindings, setBindings |-> <<>>, bindingsMapping |-> <<>>]

\* a Match that keeps the bindings of the call before
MatcherMatchKeeps(ms, a, b) ==
    LET m0 == [ms EXCEPT !.bindingsMapping = a.Bindings]
        r == match(push(m0), a.Root, b)
    IN IF r.err # "none" THEN r
       ELSE IF Len(merge(r.m).setBindings) # 0
       THEN Panic(merge(r.m), "entries left on the stack, expected none")
       ELSE R(merge(r.m), GoNil, r.ok)
\* Matcher.Match: the whole call; ms carries the two histories
MatcherMatch(ms, a, b) ==
    LET m0 == [ms EXCEPT !.bindingsMapping = a.Bindings, !.State = NoBindings]
        r == match(push(m0), a.Root, b)
    IN IF r.err # "none" THEN r
       ELSE IF Len(merge(r.m).setBindings) # 0
       THEN Panic(merge(r.m), "entries left on the stack, expected none")
       ELSE R(merge(r.m), GoNil, r.ok)

WithLogs(mm) == [State |-> mm.State, setBindings |-> mm.setBindings,
                 bindingsMapping |-> mm.bindingsMapping, notLog |-> {}, orLog |-> {},
                 recallLog |-> {}, bindLog |-> {}, popLog |-> {},
                 named |-> [i \in 1..Len(mm.setBindings) |-> {}]]
Fields(ms) == [State |-> ms.State, setBindings |-> ms.setBindings,
               bindingsMapping |-> ms.bindingsMapping]

MInit ==
    /\ m = NewMatcher
    /\ mpc = "idle"
    /\ pat = [Root |-> AnyNode, Bindings |-> <<>>]
    /\ node = GoNil
    /\ ret = FALSE
    /\ merr = "none"
    /\ calls = 0
    /\ notLog = {}
    /\ orLog = {}
    /\ recallLog = {}
    /\ bindLog = {}
    /\ popLog = {}
    /\ gotypesalias \in BOOLEAN

\* the caller picks a pattern and a node
Choose ==
    /\ mpc = "idle"
    /\ \E q \in Patterns, n \in AstNodes :
          /\ pat' = q
          /\ node' = n
    /\ mpc' = "chosen"
    /\ UNCHANGED <<m, ret, merr, calls, notLog, orLog, recallLog, bindLog, popLog, gotypesalias, lvars, hvars>>

\* m.Match(pat, node)
DoMatch ==
    /\ mpc \in {"chosen", "again"}
    /\ LET r == MatcherMatch(WithLogs(m), pat, node) IN
          /\ m' = Fields(r.m)
          /\ notLog' = r.m.notLog
          /\ orLog' = r.m.orLog
          /\ recallLog' = r.m.recallLog
          /\ bindLog' = r.m.bindLog
          /\ popLog' = r.m.popLog
          /\ ret' = r.ok
          /\ merr' = r.err
          /\ mpc' = IF merr' = "none" THEN "matched" ELSE "panicked"
    /\ calls' = calls + 1
    /\ UNCHANGED <<pat, node, gotypesalias, lvars, hvars>>

\* the same Matcher is handed the same pattern and node once more
Rematch ==
    /\ mpc = "matched"
    /\ calls < MaxCalls
    /\ mpc' = "again"
    /\ UNCHANGED <<m, pat, node, ret, merr, calls, notLog, orLog, recallLog, bindLog, popLog, gotypesalias, lvars, hvars>>

\* the caller drops the Matcher and makes a new one (pattern.Match)
Fresh ==
    /\ mpc \in {"matched", "panicked"}
    /\ m' = NewMatcher
    /\ mpc' = "idle"
    /\ pat' = [Root |-> AnyNode, Bindings |-> <<>>]
    /\ node' = GoNil
    /\ ret' = FALSE
    /\ merr' = "none"
    /\ calls' = 0
    /\ notLog' = {}
    /\ orLog' = {}
    /\ recallLog' = {}
    /\ bindLog' = {}
    /\ popLog' = {}
    /\ UNCHANGED <<gotypesalias, lvars, hvars>>

MNext == Choose \/ DoMatch \/ Rematch \/ Fresh

(***************************************************************************)
(* The IR the lifting pass works on (go/ir/lift.go)                        *)
(*                                                                         *)
(* Instructions and values live in fn.heap and are named by their position *)
(* in it; 0 is nil.  A block's Instrs holds such names, 0 for a slot that   *)
(* was emptied.  Blocks are indexed from 0 as in fn.Blocks; block 0 is the  *)
(* entry and block 1 is fn.Exit.                                           *)
(***************************************************************************)
\* a new instruction or value: operands, no referrers yet, and Go's zero
\* values for the rest (flag is Alloc.Heap or DebugRef.IsAddr)
Instr(kind, ops, block) ==
    [kind |-> kind, ops |-> ops, refs |-> <<>>, block |-> block, ID |-> 0,
     live |-> FALSE, index |-> 0, flag |-> FALSE, From |-> -1]

removeInstr(refs, instr) == SelectSeq(refs, LAMBDA r : r # instr)

\* instr is appended to the referrers of each of its operands from the
\* i-th on
RECURSIVE AddRefs(_, _, _, _)
AddRefs(heap, ops, instr, i) ==
    IF i > Len(ops) THEN heap
    ELSE AddRefs(IF ops[i] = 0 THEN heap
                 ELSE [heap EXCEPT ![ops[i]].refs = Append(@, instr)],
                 ops, instr, i + 1)
updateOperandReferrers(heap, instr) == AddRefs(heap, heap[instr].ops, instr, 1)

\* position of the first x in sequence s counted from 0, -1 if absent
IndexOf(s, x) ==
    IF \E i \in 1..Len(s) : s[i] = x
    THEN (CHOOSE i \in 1..Len(s) : s[i] = x /\ \A j \in 1..(i - 1) : s[j] # x) - 1
    ELSE -1
\* BasicBlock.succIndex and BasicBlock.predIndex
succIndex(f, b, c) == IndexOf(f.Blocks[b].Succs, c)
predIndex(f, b, c) == IndexOf(f.Blocks[b].Preds, c)

(***************************************************************************)
(* Control-flow graphs, and the trees lift expects to be up to date        *)
(***************************************************************************)
Straight == [Succs |-> (0 :> <<1>> @@ 1 :> <<>>), fakeExits |-> {}]
Diamond ==
    [Succs |-> (0 :> <<2, 3>> @@ 1 :> <<>> @@ 2 :> <<4>> @@ 3 :> <<4>> @@ 4 :> <<1>>),
     fakeExits |-> {}]
Loop ==
    [Succs |-> (0 :> <<2>> @@ 1 :> <<>> @@ 2 :> <<3, 1>> @@ 3 :> <<2>>), fakeExits |-> {}]
\* a three-way branch two of whose edges lead to the same block
TwoEdges ==
    [Succs |-> (0 :> <<2, 2, 3>> @@ 1 :> <<>> @@ 2 :> <<1>> @@ 3 :> <<1>>), fakeExits |-> {}]
\* a branch both of whose edges lead to a join that has another predecessor
TwoEdgesJoin ==
    [Succs |-> (0 :> <<2, 3>> @@ 1 :> <<>> @@ 2 :> <<4, 4>> @@ 3 :> <<4>> @@ 4 :> <<1>>),
     fakeExits |-> {}]
\* a branch one arm of which never returns
NoReturn ==
    [Succs |-> (0 :> <<2, 3>> @@ 1 :> <<>> @@ 2 :> <<1>> @@ 3 :> <<3>>), fakeExits |-> {3}]
\* a branch one arm of which leads on to the other
Triangle ==
    [Succs |-> (0 :> <<2, 3>> @@ 1 :> <<>> @@ 2 :> <<3>> @@ 3 :> <<1>>), fakeExits |-> {}]
\* a loop that is entered at both of its blocks
CrossLoop ==
    [Succs |-> (0 :> <<2, 3>> @@ 1 :> <<>> @@ 2 :> <<3, 1>> @@ 3 :> <<2>>), fakeExits |-> {}]
\* two arms that meet in a loop without end
JoinNoReturn ==
    [Succs |-> (0 :> <<2, 3>> @@ 1 :> <<>> @@ 2 :> <<4>> @@ 3 :> <<4>> @@ 4 :> <<4>>),
     fakeExits |-> {4}]
CFGs == {Straight, Diamond, Loop, TwoEdges, TwoEdgesJoin, NoReturn}

BlocksOf(g) == DOMAIN g.Succs
Occurrences(s, x) == Cardinality({i \in 1..Len(s) : s[i] = x})
\* the predecessor list of b: one entry for every edge into b
RECURSIVE PredsFrom(_, _, _)
PredsFrom(g, b, p) ==
    IF p \notin BlocksOf(g) THEN <<>>
    ELSE [i \in 1..Occurrences(g.Succs[p], b) |-> p] \o PredsFrom(g, b, p + 1)

\* the nodes reachable from the set seen along edges without entering avoid
RECURSIVE Grow(_, _, _)
Grow(edges, seen, avoid) ==
    LET next == seen \cup {e[2] : e \in {x \in edges : x[1] \in seen /\ x[2] # avoid}} IN
    IF next = seen THEN seen ELSE Grow(edges, next, avoid)
\* does d lie on every path from root to b (every node dominates itself)
DominatesIn(edges, root, d, b) == d = b \/ d = root \/ b \notin Grow(edges, {root}, d)
\* immediate dominator of b in the graph rooted at root, -1 for the root
IdomIn(edges, nodes, root, b) ==
    LET strict == {d \in nodes \ {b} : DominatesIn(edges, root, d, b)} IN
    IF b = root \/ strict = {} THEN -1
    ELSE CHOOSE d \in strict : \A e \in strict : DominatesIn(edges, root, e, d)

SeqToSet(s) == {s[i] : i \in 1..Len(s)}
\* the elements of a set of numbers in increasing order
RECURSIVE SortedSeq(_)
SortedSeq(S) ==
    IF S = {} THEN <<>>
    ELSE LET x == CHOOSE y \in S : \A z \in S : y <= z IN <<x>> \o SortedSeq(S \ {x})

CfgEdges(g) == {<<a, c>> \in BlocksOf(g) \X BlocksOf(g) : c \in SeqToSet(g.Succs[a])}
\* edges turned round, with the edge lift imagines from a block that never
\* returns to the exit block
PostEdges(g) ==
    {<<e[2], e[1]>> : e \in CfgEdges(g)} \cup {<<1, b>> : b \in g.fakeExits}

\* BasicBlock.Dominates, read off the dominator tree
Dominates(f, b, c) == <<b, c>> \in f.dom

(***************************************************************************)
(* The functions lift is run on                                            *)
(***************************************************************************)
\* most operations (stores, loads, calls, ...) in the body of a function
MaxOps == 2
\* most lift calls made in a row on one function
MaxRuns == 2

\* the function with its blocks empty; in both trees a block that never
\* returns counts as a predecessor of the exit block, as in the frontiers
EmptyFunction(g) ==
    LET fwd == CfgEdges(g) \cup {<<b, 1>> : b \in g.fakeExits}
        idom == [b \in BlocksOf(g) |-> IdomIn(fwd, BlocksOf(g), 0, b)]
    IN
    [Blocks |-> [b \in BlocksOf(g) |->
                    [Instrs |-> <<>>, Succs |-> g.Succs[b], Preds |-> PredsFrom(g, b, 0),
                     gaps |-> 0, rundefers |-> 0, cap |-> -1]],
     fakeExits |-> g.fakeExits,
     idom |-> idom,
     children |-> [b \in BlocksOf(g) |-> SortedSeq({c \in BlocksOf(g) : idom[c] = b})],
     dom |-> {bc \in BlocksOf(g) \X BlocksOf(g) : DominatesIn(fwd, 0, bc[1], bc[2])},
     pidom |-> [b \in BlocksOf(g) |-> IdomIn(PostEdges(g), BlocksOf(g), 1, b)],
     Locals |-> <<>>, heap |-> <<>>, hasDefer |-> FALSE, results |-> {},
     deferstack |-> 0, zero |-> 0]

NumBlocks(f) == Cardinality(DOMAIN f.Blocks)

\* a value that is no instruction of a block (a constant, a parameter)
NewValue(f, kind) == [f EXCEPT !.heap = Append(@, Instr(kind, <<>>, -1))]
\* the instruction is created, made known to its operands and appended to
\* block b
Emit(f, b, kind, ops, flag) ==
    LET id == Len(f.heap) + 1
        h == Append(f.heap, [Instr(kind, ops, b) EXCEPT !.flag = flag])
    IN [f EXCEPT !.heap = updateOperandReferrers(h, id),
                 !.Blocks[b].Instrs = Append(@, id)]
Last(f) == Len(f.heap)

\* what the body of a function is made of; c names a cell (an Alloc)
Ops ==
    {[op |-> "Load", c |-> c] : c \in {1, 2}}
    \cup {[op |-> o, c |-> 1] : o \in {"Store", "Escape", "DebugAddr", "DebugVal", "StoreAddr"}}
    \cup {[op |-> o, c |-> 0] : o \in {"RunDefers", "Defer"}}

\* the instructions of one operation, appended to block b; cell[c] is the
\* Alloc of cell c
EmitOp(f, b, o, cell) ==
    CASE o.op = "Store" ->     \* *c = k
           LET f1 == NewValue(f, "Const") IN Emit(f1, b, "Store", <<cell[o.c], Last(f1)>>, FALSE)
      [] o.op = "Load" ->      \* use(*c)
           LET f1 == Emit(f, b, "Load", <<cell[o.c]>>, FALSE) IN
           Emit(f1, b, "Call", <<Last(f1)>>, FALSE)
      [] o.op = "Escape" ->    \* use(c)
           Emit(f, b, "Call", <<cell[o.c]>>, FALSE)
      [] o.op = "DebugAddr" -> Emit(f, b, "DebugRef", <<cell[o.c]>>, TRUE)
      [] o.op = "DebugVal" ->  Emit(f, b, "DebugRef", <<cell[o.c]>>, FALSE)
      [] o.op = "StoreAddr" -> \* *c1 = c2
           Emit(f, b, "Store", <<cell[1], cell[2]>>, FALSE)
      [] o.op = "RunDefers" -> Emit(f, b, "RunDefers", <<>>, FALSE)
      [] OTHER ->              \* defer: reads the defer stack if there is one
           IF f.deferstack = 0 THEN Emit(f, b, "Defer", <<0>>, FALSE)
           ELSE LET f1 == Emit(f, b, "Load", <<f.deferstack>>, FALSE) IN
                Emit(f1, b, "Defer", <<Last(f1)>>, FALSE)

\* a body: operations with the block each is in, block by block
Bodies(g) ==
    {p \in SeqsUpTo(BlocksOf(g) \X Ops, MaxOps) :
        \A i \in 1..(Len(p) - 1) : p[i][1] <= p[i + 1][1]}
Uses(p, c) ==
    \E i \in 1..Len(p) : p[i][2].c = c \/ (c = 2 /\ p[i][2].op = "StoreAddr")
HasDefer(p) == \E i \in 1..Len(p) : p[i][2].op = "Defer"

\* an Alloc that is a local of the function
AddLocal(f, heapFlag) ==
    LET f1 == Emit(f, 0, "Alloc", <<>>, heapFlag) IN [f1 EXCEPT !.Locals = Append(@, Last(f1))]

RECURSIVE EmitBody(_, _, _, _)
EmitBody(f, p, cell, i) ==
    IF i > Len(p) THEN f
    ELSE EmitBody(EmitOp(f, p[i][1], p[i][2], cell), p, cell, i + 1)
RECURSIVE EmitTerminators(_, _)
EmitTerminators(f, b) ==
    IF b \notin DOMAIN f.Blocks THEN f
    ELSE EmitTerminators(Emit(f, b, "Jump", <<>>, FALSE), b + 1)

\* The function built from the empty function e and body p.  ds says whether the function
\* keeps a defer stack ("none", "stack", "heap": the Alloc's Heap flag);
\* named says whether cell 1 is a named result.
BuildFunction(e, p, ds, named) ==
    LET f0 == [e EXCEPT !.hasDefer = HasDefer(p)]
        f1 == IF Uses(p, 1) THEN AddLocal(f0, FALSE) ELSE f0
        c1 == Last(f1)
        f2 == IF Uses(p, 2) THEN AddLocal(f1, FALSE) ELSE f1
        c2 == Last(f2)
        f3 == IF ds = "none" THEN f2
              ELSE LET a == AddLocal(f2, ds = "heap")
                       b == Emit(a, 0, "Call", <<>>, FALSE)
                   IN [Emit(b, 0, "Store", <<Last(a), Last(b)>>, FALSE) EXCEPT !.deferstack = Last(a)]
        f4 == [f3 EXCEPT !.results = IF named /\ Uses(p, 1) THEN {c1} ELSE {}]
    IN EmitTerminators(EmitBody(f4, p, (1 :> c1 @@ 2 :> c2), 1), 0)

\* a function that defers may keep a defer stack and may have named results
Variants(p) ==
    IF HasDefer(p)
    THEN {<<"none", FALSE>>, <<"stack", FALSE>>, <<"heap", FALSE>>}
         \cup (IF Uses(p, 1) THEN {<<"none", TRUE>>} ELSE {})
    ELSE {<<"none", FALSE>>}
FunctionsOn(g) ==
    LET e == EmptyFunction(g) IN
    UNION {{BuildFunction(e, p, v[1], v[2]) : v \in Variants(p)} : p \in Bodies(g)}
\* bodies longer than MaxOps, on Triangle: the address of cell 2 is stored
\* into cell 1 and overwritten in the entry block, and both cells are read
\* in both arms of the branch
ChainedTwice ==
    LET head == <<<<0, [op |-> "StoreAddr", c |-> 1]>>, <<0, [op |-> "Store", c |-> 1]>>>> IN
    {head \o <<<<2, [op |-> "Load", c |-> c1]>>, <<2, [op |-> "Load", c |-> 3 - c1]>>,
               <<3, [op |-> "Load", c |-> c2]>>, <<3, [op |-> "Load", c |-> 3 - c2]>>>> :
        c1 \in {1, 2}, c2 \in {1, 2}}
\* a cell that is read in the entry block and escapes in a loop entered at
\* both of its blocks
EscapesInLoop ==
    {<<<<0, [op |-> "Load", c |-> 1]>>, <<b, [op |-> "Escape", c |-> 1]>>>> : b \in {2, 3}}
\* a cell of block home, a new(T) that is no local: read and then escaping
\* there
BuildFunctionAt(e, home) ==
    LET f1 == Emit(e, home, "Alloc", <<>>, FALSE)
        body == <<<<home, [op |-> "Load", c |-> 1]>>, <<home, [op |-> "Escape", c |-> 1]>>>>
    IN EmitTerminators(EmitBody(f1, body, (1 :> Last(f1) @@ 2 :> 0), 1), 0)
Functions ==
    UNION {FunctionsOn(g) : g \in CFGs}
    \cup {BuildFunction(EmptyFunction(Triangle), p, "none", FALSE) : p \in ChainedTwice}
    \cup {BuildFunction(EmptyFunction(CrossLoop), p, "none", FALSE) : p \in EscapesInLoop}
    \cup {BuildFunctionAt(EmptyFunction(Triangle), 2)}
    \cup {BuildFunction(EmptyFunction(JoinNoReturn), p, "none", FALSE) : p \in EscapesInLoop}

(***************************************************************************)
(* liftable: can the Alloc be lifted, and what splits it                   *)
(***************************************************************************)
EdgesOf(f) == {bc \in (DOMAIN f.Blocks) \X (DOMAIN f.Blocks) : bc[2] \in SeqToSet(f.Blocks[bc[1]].Succs)}
Min(S) == CHOOSE x \in S : \A y \in S : x <= y
Max(S) == CHOOSE x \in S : \A y \in S : x >= y
\* Go's map[k] = append(map[k], xs...)
MapAppend(mp, k, xs) == IF k \in DOMAIN mp THEN [mp EXCEPT ![k] = @ \o xs] ELSE mp @@ (k :> xs)

\* numberNodesPerBlock: every instruction gets its position among the
\* instructions of its block as ID
RECURSIVE NumberBlock(_, _, _, _)
NumberBlock(heap, instrs, i, base) ==
    IF i > Len(instrs) THEN heap
    ELSE IF instrs[i] = 0 THEN NumberBlock(heap, instrs, i + 1, base)
    ELSE NumberBlock([heap EXCEPT ![instrs[i]].ID = base], instrs, i + 1, base + 1)
RECURSIVE NumberFrom(_, _)
NumberFrom(f, b) ==
    IF b \notin DOMAIN f.Blocks THEN f
    ELSE NumberFrom([f EXCEPT !.heap = NumberBlock(@, f.Blocks[b].Instrs, 1, 0)], b + 1)
numberNodesPerBlock(f) == NumberFrom(f, 0)

\* the first switch of liftable: is referrer r a use that cannot be lifted
UnliftableUse(f, alloc, r) ==
    CASE f.heap[r].kind = "Store" -> f.heap[r].ops[2] = alloc
      [] f.heap[r].kind \in {"Load", "DebugRef"} -> FALSE
      [] OTHER -> TRUE
\* the second switch: is r a use that counts for lastLiftable
LiftableUse(f, alloc, r) ==
    \/ f.heap[r].kind = "Store" /\ f.heap[r].ops[2] # alloc
    \/ f.heap[r].kind = "Load"

\* index of the first instruction of b that is no phi and no sigma, -1 if none
FirstNonHead(f, b) ==
    LET is == f.Blocks[b].Instrs
        ok == {i \in 1..Len(is) : is[i] = 0 \/ f.heap[is[i]].kind \notin {"Phi", "Sigma"}}
    IN IF ok = {} THEN -1 ELSE Min(ok) - 1

\* blockDesc of block b after the three loops over the referrers
BlockDesc(f, alloc, b) ==
    LET refs == {r \in SeqToSet(f.heap[alloc].refs) : f.heap[r].block = b}
        unl == {r \in refs : UnliftableUse(f, alloc, r)}
        inPreds == \E r \in unl : f.heap[r].kind \in {"Phi", "Sigma"}
        first == IF inPreds THEN 0
                 ELSE IF unl = {} THEN Len(f.Blocks[b].Instrs) + 1
                 ELSE Min({f.heap[r].ID : r \in unl})
        early == {r \in refs : f.heap[r].ID < first}
        lift == {r \in early : LiftableUse(f, alloc, r)}
        last == IF lift = {} THEN -1 ELSE Max({f.heap[r].ID : r \in lift})
    IN [isUnliftable |-> unl # {},
        hasLiftableLoad |-> \E r \in early : f.heap[r].kind = "Load",
        hasLiftableOther |-> \E r \in early :
                                \/ f.heap[r].kind = "DebugRef"
                                \/ f.heap[r].kind = "Store" /\ f.heap[r].ops[2] # alloc,
        storeInPreds |-> inPreds,
        lastLiftable |-> last,
        firstUnliftable |-> IF last = -1 /\ ~inPreds THEN FirstNonHead(f, b) ELSE last + 1]

\* a search that marks a block and goes no further
dfsShallow(f, order, b) == IF b \in SeqToSet(order) THEN order ELSE Append(order, b)
\* dfs: the blocks whose descriptor the search overwrites, in the order it
\* does so; a block already seen is left at once
RECURSIVE dfs(_, _, _)
RECURSIVE dfsSuccs(_, _, _, _)
dfs(f, order, b) ==
    IF b \in SeqToSet(order) THEN order
    ELSE dfsSuccs(f, Append(order, b), f.Blocks[b].Succs, 1)
dfsSuccs(f, order, succs, i) ==
    IF i > Len(succs) THEN order
    ELSE dfsSuccs(f, dfs(f, order, succs[i]), succs, i + 1)
\* the loop over the blocks that starts the search at the successors of
\* every block that is unliftable when the loop comes to it
RECURSIVE FloodFill(_, _, _, _)
FloodFill(f, alloc, order, b) ==
    IF b \notin DOMAIN f.Blocks THEN order
    ELSE IF BlockDesc(f, alloc, b).isUnliftable \/ b \in SeqToSet(order)
    THEN FloodFill(f, alloc, dfsSuccs(f, order, f.Blocks[b].Succs, 1), b + 1)
    ELSE FloodFill(f, alloc, order, b + 1)
\* the blocks the depth-first search marks
Tainted(f, alloc) == SeqToSet(FloodFill(f, alloc, <<>>, 0))
\* blockDesc of every block when the search is over
BlockDescs(f, alloc) ==
    LET t == Tainted(f, alloc) IN
    [b \in DOMAIN f.Blocks |->
        IF b \in t
        THEN [BlockDesc(f, alloc, b) EXCEPT !.hasLiftableLoad = FALSE, !.hasLiftableOther = FALSE,
                 !.isUnliftable = TRUE, !.firstUnliftable = 0, !.storeInPreds = TRUE]
        ELSE BlockDesc(f, alloc, b)]

\* propagate: a Load of alloc and a Store of it to newAlloc, to be inserted
\* in block in before instruction before.  s is liftable's state: the
\* function f, the recorded work, predHasStore.
propagate(s, in, before, alloc, newAlloc) ==
    LET load == Len(s.f.heap) + 1
        store == Len(s.f.heap) + 2
        h == s.f.heap \o <<Instr("Load", <<alloc>>, in), Instr("Store", <<newAlloc, load>>, in)>>
    IN [s EXCEPT !.f.heap = updateOperandReferrers(updateOperandReferrers(h, load), store),
                 !.work[in].insertInstructions = MapAppend(@, before, <<load, store>>)]

\* a loop that forgets which predecessors have their pair
RECURSIVE StoreInPredsAgain(_, _, _, _, _, _)
StoreInPredsAgain(s, desc, b, alloc, newAlloc, i) ==
    LET preds == s.f.Blocks[b].Preds IN
    IF i > Len(preds) THEN s
    ELSE IF desc[preds[i]].isUnliftable \/ ~Dominates(s.f, s.f.heap[alloc].block, preds[i])
    THEN StoreInPredsAgain(s, desc, b, alloc, newAlloc, i + 1)
    ELSE StoreInPredsAgain(
             propagate(s, preds[i], s.f.Blocks[preds[i]].Instrs[Len(s.f.Blocks[preds[i]].Instrs)],
                       alloc, newAlloc),
             desc, b, alloc, newAlloc, i + 1)
\* the loop over the predecessors of an unliftable block b, from the i-th
RECURSIVE StoreInPreds(_, _, _, _, _, _)
StoreInPreds(s, desc, b, alloc, newAlloc, i) ==
    LET preds == s.f.Blocks[b].Preds IN
    IF i > Len(preds) THEN s
    ELSE LET pred == preds[i]
             instrs == s.f.Blocks[pred].Instrs
         IN
         IF \/ desc[pred].isUnliftable
            \/ ~Dominates(s.f, s.f.heap[alloc].block, pred)
            \/ pred \in s.predHasStore
         THEN StoreInPreds(s, desc, b, alloc, newAlloc, i + 1)
         ELSE IF Len(instrs) = 0 THEN [s EXCEPT !.err = "index out of range"]
         ELSE StoreInPreds(
                  propagate([s EXCEPT !.predHasStore = @ \cup {pred}],
                            pred, instrs[Len(instrs)], alloc, newAlloc),
                  desc, b, alloc, newAlloc, i + 1)

\* the loop over the blocks that records the renames and the stores
RECURSIVE SplitBlocks(_, _, _, _, _)
SplitBlocks(s, desc, alloc, newAlloc, b) ==
    IF b \notin DOMAIN s.f.Blocks \/ s.err # "none" THEN s
    ELSE IF ~desc[b].isUnliftable THEN SplitBlocks(s, desc, alloc, newAlloc, b + 1)
    ELSE LET s1 == [s EXCEPT !.work[b].renameAllocs =
                        Append(@, [from |-> alloc, to |-> newAlloc,
                                   startingAt |-> desc[b].firstUnliftable])]
             at == desc[b].firstUnliftable
             s2 == IF desc[b].storeInPreds THEN StoreInPreds(s1, desc, b, alloc, newAlloc, 1)
                   ELSE IF at < 0 \/ at >= Len(s1.f.Blocks[b].Instrs)
                   THEN [s1 EXCEPT !.err = "index out of range"]
                   ELSE propagate(s1, b, s1.f.Blocks[b].Instrs[at + 1], alloc, newAlloc)
         IN SplitBlocks(s2, desc, alloc, newAlloc, b + 1)

\* a classification that takes every cell as it is
liftableAlways(s, alloc) == [s EXCEPT !.ok = TRUE]
\* liftable(alloc, instructions): s.ok is its result
liftable(s, alloc) ==
    LET f == s.f
        desc == BlockDescs(f, alloc)
        hasLiftableLoad == \E b \in DOMAIN desc : desc[b].hasLiftableLoad
        hasLiftableOther == \E b \in DOMAIN desc : desc[b].hasLiftableOther
        hasUnliftable == \E b \in DOMAIN desc : desc[b].isUnliftable
        newAlloc == Len(f.heap) + 1
        s1 == [s EXCEPT
                 !.f.heap = Append(@, [Instr("Alloc", <<>>, f.heap[alloc].block) EXCEPT
                                          !.flag = TRUE, !.index = -1]),
                 !.work[f.heap[alloc].block].insertInstructions = MapAppend(@, alloc, <<newAlloc>>),
                 !.predHasStore = {}]
        \* history: the search's visits and the descriptors it left
        fill == [visited |-> FloodFill(f, alloc, <<>>, 0), blocks |-> desc]
    IN IF f.hasDefer /\ alloc \in f.results THEN [s EXCEPT !.ok = FALSE]
       ELSE IF \E r \in SeqToSet(f.heap[alloc].refs) : f.heap[r].block = -1
       THEN [s EXCEPT !.ok = FALSE, !.err = "nil dereference"]
       ELSE IF ~hasLiftableLoad /\ ~hasLiftableOther
       THEN [s EXCEPT !.ok = FALSE, !.fills = MapAppend(@, alloc, <<fill>>)]
       ELSE IF ~hasUnliftable THEN [s EXCEPT !.ok = TRUE, !.fills = MapAppend(@, alloc, <<fill>>)]
       ELSE IF ~hasLiftableLoad THEN [s EXCEPT !.ok = FALSE, !.fills = MapAppend(@, alloc, <<fill>>)]
       ELSE [SplitBlocks(s1, desc, alloc, newAlloc, 0) EXCEPT
                !.ok = TRUE, !.fills = MapAppend(@, alloc, <<fill>>)]

(***************************************************************************)
(* Dominance frontiers, the reachability index, BlockSet                   *)
(***************************************************************************)
\* the loop "for runner != stop": b is added to the frontier of runner and
\* of the blocks above it in the tree up until stop
RECURSIVE Climb(_, _, _, _, _)
Climb(fr, tree, runner, stop, b) ==
    IF runner = stop THEN fr
    ELSE IF runner = -1 THEN [fr EXCEPT !.err = "nil dereference"]
    ELSE Climb([fr EXCEPT !.of[runner] = Append(@, b)], tree, tree[runner], stop, b)
RECURSIVE ClimbAll(_, _, _, _, _, _)
ClimbAll(fr, tree, from, i, stop, b) ==
    IF i > Len(from) \/ fr.err # "none" THEN fr
    ELSE ClimbAll(Climb(fr, tree, from[i], stop, b), tree, from, i + 1, stop, b)

\* domFrontier.build, from block b on
RECURSIVE DomFrontierFrom(_, _, _)
DomFrontierFrom(f, fr, b) ==
    IF b \notin DOMAIN f.Blocks \/ fr.err # "none" THEN fr
    ELSE LET preds == f.Blocks[b].Preds
                      \o (IF b = 1 THEN SortedSeq(f.fakeExits) ELSE <<>>)
         IN DomFrontierFrom(f,
                IF Len(preds) >= 2 THEN ClimbAll(fr, f.idom, preds, 1, f.idom[b], b) ELSE fr,
                b + 1)
buildDomFrontier(f) ==
    DomFrontierFrom(f, [of |-> [b \in DOMAIN f.Blocks |-> <<>>], err |-> "none"], 0)

\* postDomFrontier.build, from block b on
RECURSIVE PostDomFrontierFrom(_, _, _)
PostDomFrontierFrom(f, fr, b) ==
    IF b \notin DOMAIN f.Blocks \/ fr.err # "none" THEN fr
    ELSE LET succs == f.Blocks[b].Succs \o (IF b \in f.fakeExits THEN <<1>> ELSE <<>>)
         IN PostDomFrontierFrom(f,
                IF Len(succs) >= 2 THEN ClimbAll(fr, f.pidom, succs, 1, f.pidom[b], b) ELSE fr,
                b + 1)
buildPostDomFrontier(f) ==
    PostDomFrontierFrom(f, [of |-> [b \in DOMAIN f.Blocks |-> <<>>], err |-> "none"], 0)

\* An interval word is 32 bits: the flag (bit 31), the length (lengthBits
\* bits) and the number (the low numBits bits); it is kept as these fields.
numBits == 20
lengthBits == 32 - numBits - 1
\* the word holding the number x < 2^31
Word(x) ==
    [flag |-> 0, length |-> (x \div (2 ^ numBits)) % (2 ^ lengthBits), num |-> x % (2 ^ numBits)]
\* the number a word with flag 0 holds
Number(w) == (w.length * (2 ^ numBits)) + w.num

\* a | b on natural numbers
RECURSIVE BitOr(_, _)
BitOr(a, b) ==
    IF a = 0 THEN b
    ELSE IF b = 0 THEN a
    ELSE 2 * BitOr(a \div 2, b \div 2) + (IF a % 2 = 1 \/ b % 2 = 1 THEN 1 ELSE 0)

\* an encoding that never takes a second word
addIntervalShort(start, end) ==
    <<[Word(start) EXCEPT !.length = BitOr(@, (end - start) % (2 ^ lengthBits))]>>
\* addInterval: one word for a short interval (l<<numBits | start), two for
\* a long one (1<<31 | start, end)
addInterval(start, end) ==
    IF end - start <= 2 ^ lengthBits - 1
    THEN <<[Word(start) EXCEPT !.length = BitOr(@, end - start)]>>
    ELSE <<[Word(start) EXCEPT !.flag = 1], Word(end)>>
\* closure.walk: the blocks visited from b
walk(f, b) == Grow(EdgesOf(f), {b}, -1)
\* the scan of the reachable vector from id on; start is -1 outside a run
RECURSIVE Intervals(_, _, _, _)
Intervals(reachable, n, id, start) ==
    IF id = n THEN (IF start # -1 THEN addInterval(start, n - 1) ELSE <<>>)
    ELSE IF id \notin reachable
    THEN (IF start # -1 THEN addInterval(start, id - 1) ELSE <<>>)
         \o Intervals(reachable, n, id + 1, -1)
    ELSE Intervals(reachable, n, id + 1, IF start = -1 THEN id ELSE start)
\* transitiveClosure, from block b on (block 0 gets no intervals)
RECURSIVE ClosureFrom(_, _, _)
ClosureFrom(f, c, b) ==
    IF b \notin DOMAIN f.Blocks THEN c
    ELSE LET words == c.reachables \o Intervals(walk(f, b), NumBlocks(f), 0, -1) IN
         ClosureFrom(f, [span |-> Append(c.span, Len(words)), reachables |-> words], b + 1)
transitiveClosure(f) == ClosureFrom(f, [span |-> <<0, 0>>, reachables |-> <<>>], 1)

\* the interval that has reads at the i-th of the words r, and where the
\* next one begins
decode(r, i) ==
    LET inv == r[i] IN
    IF inv.flag = 0
    THEN [start |-> inv.num, end |-> inv.num + inv.length, next |-> i + 1]
    ELSE [start |-> inv.num, end |-> Number(r[i + 1]), next |-> i + 2]
\* a scan that takes an interval as open at its start
RECURSIVE InIntervalsOpen(_, _, _)
InIntervalsOpen(r, i, idx) ==
    IF i > Len(r) THEN FALSE
    ELSE LET d == decode(r, i) IN
         (idx > d.start /\ idx <= d.end) \/ InIntervalsOpen(r, d.next, idx)
\* the scan of the words r from the i-th on
RECURSIVE InIntervals(_, _, _)
InIntervals(r, i, idx) ==
    IF i > Len(r) THEN FALSE
    ELSE LET d == decode(r, i) IN
         (idx >= d.start /\ idx <= d.end) \/ InIntervals(r, d.next, idx)
\* closure.reachable and closure.has; span is indexed from 0 in the code
reachable(c, id) == SubSeq(c.reachables, c.span[id + 1] + 1, c.span[id + 2])
has(f, c, s, v) == v = 1 \/ Dominates(f, s, v) \/ InIntervals(reachable(c, s), 1, v)

\* BlockSet
NewBlockSet(size) == [idx |-> 0, values |-> [i \in 0..(size - 1) |-> FALSE], count |-> 0]
\* Set: copy copies as many values as both sets have
BlockSetSet(s, s2) ==
    LET values == [i \in DOMAIN s.values |->
                      IF i \in DOMAIN s2.values THEN s2.values[i] ELSE s.values[i]]
    IN [s EXCEPT !.values = values,
                 !.count = Cardinality({i \in DOMAIN values : values[i]})]
\* Add: the set afterwards and whether it changed
AddResult(s, b) ==
    IF s.values[b] THEN [s |-> s, changed |-> FALSE]
    ELSE [s |-> [s EXCEPT !.count = @ + 1, !.values[b] = TRUE, !.idx = b], changed |-> TRUE]
BlockSetAdd(s, b) == AddResult(s, b).s
BlockSetClear(s) == [s EXCEPT !.values = [i \in DOMAIN s.values |-> FALSE], !.count = 0]
\* a Take that does not wrap around to the indices below the cursor
BlockSetTakeAbove(s) ==
    LET n == Cardinality(DOMAIN s.values)
        upper == {i \in s.idx..(n - 1) : s.values[i]}
        i == IF upper # {} THEN Min(upper) ELSE -1
    IN IF i = -1 THEN [s |-> s, i |-> -1]
       ELSE [s |-> [s EXCEPT !.values[i] = FALSE, !.idx = i, !.count = @ - 1], i |-> i]
\* Take: the set afterwards and the index taken, -1 if there was none
BlockSetTake(s) ==
    LET n == Cardinality(DOMAIN s.values)
        upper == {i \in s.idx..(n - 1) : s.values[i]}
        lower == {i \in 0..(s.idx - 1) : s.values[i]}
        i == IF upper # {} THEN Min(upper) ELSE IF lower # {} THEN Min(lower) ELSE -1
    IN IF i = -1 THEN [s |-> s, i |-> -1]
       ELSE [s |-> [s EXCEPT !.values[i] = FALSE, !.idx = i, !.count = @ - 1], i |-> i]

(***************************************************************************)
(* lift, first part: which Allocs are lifted, and the splits applied       *)
(***************************************************************************)
\* deferstackPreamble: the Alloc of fn.deferstack and the call stored to it
deferstackPreamble(f) ==
    LET alloc == f.deferstack
        stores == IF alloc = 0 THEN <<>>
                  ELSE SelectSeq(f.heap[alloc].refs,
                           LAMBDA r : /\ f.heap[r].kind = "Store"
                                      /\ f.heap[r].ops[1] = alloc
                                      /\ f.heap[r].ops[2] # 0
                                      /\ f.heap[f.heap[r].ops[2]].kind = "Call")
    IN IF Len(stores) = 0 THEN [alloc |-> 0, call |-> 0]
       ELSE [alloc |-> alloc, call |-> f.heap[stores[1]].ops[2]]

\* the state lift starts a run with
NewRun(f) ==
    LET pre == deferstackPreamble(f) IN
    [f |-> f, numAllocs |-> 0, usesDefer |-> FALSE,
     eliminateDeferStack |-> pre.alloc # 0 /\ ~f.heap[pre.alloc].flag,
     deferstackCall |-> pre.call,
     work |-> [b \in DOMAIN f.Blocks |-> [insertInstructions |-> <<>>, renameAllocs |-> <<>>]],
     df |-> <<>>, rdf |-> <<>>, closure |-> [nil |-> TRUE],
     newPhis |-> [b \in DOMAIN f.Blocks |-> <<>>],
     newSigmas |-> [b \in DOMAIN f.Blocks |-> <<>>],
     predHasStore |-> {}, fills |-> <<>>, ok |-> FALSE, err |-> "none"]

\* one round of the switch over the instructions of block b
ClassifyInstr(s, b, instr) ==
    IF instr = 0 THEN s
    ELSE CASE s.f.heap[instr].kind = "Alloc" ->
                LET s1 == liftable(s, instr) IN
                IF s1.err # "none" THEN s1
                ELSE IF ~s1.ok THEN [s1 EXCEPT !.f.heap[instr].index = -1]
                ELSE [s1 EXCEPT !.f.heap[instr].index = s1.numAllocs, !.numAllocs = @ + 1]
           [] s.f.heap[instr].kind = "Defer" ->
                LET ds == s.f.heap[instr].ops[1]
                    s1 == [s EXCEPT !.usesDefer = TRUE]
                IN IF s.eliminateDeferStack /\ ds # 0
                   THEN [s1 EXCEPT !.f.heap[ds].refs = removeInstr(@, instr),
                                   !.f.heap[instr].ops[1] = 0]
                   ELSE s1
           [] s.f.heap[instr].kind = "RunDefers" ->
                [s EXCEPT !.f.Blocks[b].rundefers = @ + 1]
           [] OTHER -> s
\* the loop over the instructions block b had when the loop was entered
RECURSIVE ClassifyBlock(_, _, _, _)
ClassifyBlock(s, b, instrs, i) ==
    IF i > Len(instrs) \/ s.err # "none" THEN s
    ELSE ClassifyBlock(ClassifyInstr(s, b, instrs[i]), b, instrs, i + 1)
RECURSIVE ClassifyFrom(_, _)
ClassifyFrom(s, b) ==
    IF b \notin DOMAIN s.f.Blocks \/ s.err # "none" THEN s
    ELSE ClassifyFrom(ClassifyBlock([s EXCEPT !.f.Blocks[b].gaps = 0, !.f.Blocks[b].rundefers = 0],
                                    b, s.f.Blocks[b].Instrs, 1),
                      b + 1)
\* the frontiers and the reachability index, built when the first Alloc is
\* found liftable
Frontiers(s) ==
    LET df == buildDomFrontier(s.f)
        rdf == buildPostDomFrontier(s.f)
    IN IF s.numAllocs = 0 \/ s.err # "none" THEN s
       ELSE IF df.err # "none" THEN [s EXCEPT !.err = df.err]
       ELSE IF rdf.err # "none" THEN [s EXCEPT !.err = rdf.err]
       ELSE [s EXCEPT !.df = df.of, !.rdf = rdf.of,
                      !.closure = IF NumBlocks(s.f) > 2
                                  THEN [nil |-> FALSE] @@ transitiveClosure(s.f)
                                  ELSE [nil |-> TRUE]]
Classify(f) == Frontiers(ClassifyFrom(NewRun(numberNodesPerBlock(f)), 0))

\* replace: every operand of instr that is x becomes y
replace(heap, instr, x, y) ==
    LET ops == heap[instr].ops
        new == [i \in 1..Len(ops) |-> IF ops[i] = x THEN y ELSE ops[i]]
        h == [heap EXCEPT ![instr].ops = new, ![y].refs = Append(@, instr)]
    IN IF \A i \in 1..Len(ops) : ops[i] # x THEN heap
       ELSE [h EXCEPT ![x].refs = removeInstr(@, instr)]

RECURSIVE ReplaceIn(_, _, _, _)
ReplaceIn(s, instrs, rename, i) ==
    IF i > Len(instrs) \/ s.err # "none" THEN s
    ELSE IF instrs[i] = 0 THEN [s EXCEPT !.err = "nil dereference"]
    ELSE ReplaceIn([s EXCEPT !.f.heap = replace(@, instrs[i], rename.from, rename.to)],
                   instrs, rename, i + 1)
RECURSIVE RenameIn(_, _, _)
RenameIn(s, b, k) ==
    LET renames == s.work[b].renameAllocs IN
    IF k > Len(renames) \/ s.err # "none" THEN s
    ELSE IF renames[k].startingAt < 0 \/ renames[k].startingAt > Len(s.f.Blocks[b].Instrs)
    THEN [s EXCEPT !.err = "slice bounds out of range"]
    ELSE RenameIn(ReplaceIn(s, s.f.Blocks[b].Instrs, renames[k], renames[k].startingAt + 1), b, k + 1)
\* the loop that applies renameAllocs, from block b on
RECURSIVE RenameAllocsFrom(_, _)
RenameAllocsFrom(s, b) ==
    IF b \notin DOMAIN s.f.Blocks \/ s.err # "none" THEN s
    ELSE RenameAllocsFrom(RenameIn(s, b, 1), b + 1)

\* an insertion that puts the recorded instructions after their keys
RECURSIVE InsertedAfter(_, _, _)
InsertedAfter(instrs, insert, i) ==
    IF i > Len(instrs) THEN <<>>
    ELSE <<instrs[i]>> \o (IF instrs[i] \in DOMAIN insert THEN insert[instrs[i]] ELSE <<>>)
         \o InsertedAfter(instrs, insert, i + 1)
\* b.Instrs with the recorded instructions put before their keys; cap is the
\* capacity of the slice, -1 where append chose it
RECURSIVE Inserted(_, _, _)
Inserted(instrs, insert, i) ==
    IF i > Len(instrs) THEN <<>>
    ELSE (IF instrs[i] \in DOMAIN insert THEN insert[instrs[i]] ELSE <<>>)
         \o <<instrs[i]>> \o Inserted(instrs, insert, i + 1)
RECURSIVE InsertFrom(_, _)
InsertFrom(s, b) ==
    IF b \notin DOMAIN s.f.Blocks THEN s
    ELSE LET insert == s.work[b].insertInstructions IN
         IF DOMAIN insert = {} THEN InsertFrom(s, b + 1)
         ELSE LET newInstrs == Inserted(s.f.Blocks[b].Instrs, insert, 1)
                  room == NumBlocks(s.f) + Cardinality(DOMAIN insert) * 3
              IN InsertFrom([s EXCEPT !.f.Blocks[b].Instrs = newInstrs,
                                      !.f.Blocks[b].cap =
                                          IF Len(newInstrs) <= room THEN room ELSE -1],
                            b + 1)
\* the renames and then the insertions
ApplySplits(s) ==
    LET s1 == RenameAllocsFrom(s, 0) IN
    IF s1.err # "none" THEN s1 ELSE InsertFrom(s1, 0)

(***************************************************************************)
(* liftAlloc: where phi- and sigma-nodes may be needed                     *)
(***************************************************************************)
Referrers(la) == la.s.f.heap[la.alloc].refs

RECURSIVE AddBlocks(_, _, _)
AddBlocks(bs, blocks, i) ==
    IF i > Len(blocks) THEN bs ELSE AddBlocks(BlockSetAdd(bs, blocks[i]), blocks, i + 1)
\* the blocks of the instructions refs, -1 for an instruction without block
BlocksOfInstrs(heap, refs) == [i \in 1..Len(refs) |-> heap[refs[i]].block]

\* defblocks and useblocks: the loop over the referrers from the i-th on
RECURSIVE DefUse(_, _)
DefUse(la, i) ==
    LET refs == Referrers(la)
        heap == la.s.f.heap
    IN IF i > Len(refs) \/ la.s.err # "none" THEN la
       ELSE CASE heap[refs[i]].kind = "Store" ->
                   IF heap[refs[i]].block = -1 THEN [la EXCEPT !.s.err = "nil dereference"]
                   ELSE DefUse([la EXCEPT !.defblocks = BlockSetAdd(@, heap[refs[i]].block)], i + 1)
              [] heap[refs[i]].kind = "Load" ->
                   LET users == BlocksOfInstrs(heap, heap[refs[i]].refs) IN
                   IF heap[refs[i]].block = -1 \/ -1 \in SeqToSet(users)
                   THEN [la EXCEPT !.s.err = "nil dereference"]
                   ELSE DefUse([la EXCEPT !.useblocks =
                                   AddBlocks(BlockSetAdd(@, heap[refs[i]].block), users, 1)],
                               i + 1)
              [] OTHER -> DefUse(la, i + 1)

\* is a Load of the alloc in a block the index says y reaches
PhiLive(la, y) ==
    \/ la.s.closure.nil
    \/ \E i \in 1..Len(Referrers(la)) :
          /\ la.s.f.heap[Referrers(la)[i]].kind = "Load"
          /\ has(la.s.f, la.s.closure, y, la.s.f.heap[Referrers(la)[i]].block)
\* a placement that does not ask whether a Load is reached
PlacePhiUnpruned(la, y) ==
    LET preds == la.s.f.Blocks[y].Preds
        phi == Len(la.s.f.heap) + 1
    IN IF Len(Referrers(la)) = 0 \/ Len(preds) = 0 THEN la
       ELSE [la EXCEPT
               !.s.f.heap = Append(@, Instr("Phi", [i \in 1..Len(preds) |-> 0], y)),
               !.s.newPhis[y] = Append(@, [phi |-> phi, alloc |-> la.alloc]),
               !.useblocks = AddBlocks(@, preds, 1),
               !.change = TRUE,
               !.defblocks = BlockSetAdd(@, y),
               !.W = IF la.defblocks.values[y] THEN @ ELSE BlockSetAdd(@, y)]
\* the body of "if Aphi.Add(y)"
PlacePhi(la, y) ==
    LET preds == la.s.f.Blocks[y].Preds
        phi == Len(la.s.f.heap) + 1
    IN IF Len(Referrers(la)) = 0 \/ ~PhiLive(la, y) \/ Len(preds) = 0 THEN la
       ELSE [la EXCEPT
               !.s.f.heap = Append(@, Instr("Phi", [i \in 1..Len(preds) |-> 0], y)),
               !.s.newPhis[y] = Append(@, [phi |-> phi, alloc |-> la.alloc]),
               !.useblocks = AddBlocks(@, preds, 1),
               !.change = TRUE,
               !.defblocks = BlockSetAdd(@, y),
               !.W = IF la.defblocks.values[y] THEN @ ELSE BlockSetAdd(@, y)]
\* the loop over df[n] from its k-th block on
RECURSIVE PhiFrontier(_, _, _)
PhiFrontier(la, ys, k) ==
    IF k > Len(ys) THEN la
    ELSE IF la.Aphi.values[ys[k]] THEN PhiFrontier(la, ys, k + 1)
    ELSE PhiFrontier(PlacePhi([la EXCEPT !.Aphi = BlockSetAdd(@, ys[k])], ys[k]), ys, k + 1)
RECURSIVE PhiTake(_)
PhiTake(la) ==
    LET t == BlockSetTake(la.W) IN
    IF t.i = -1 THEN la
    ELSE PhiTake(PhiFrontier([la EXCEPT !.W = t.s], la.s.df[t.i], 1))

\* is a referrer of the alloc in a block the index says succ reaches
SigmaLive(la, succ) ==
    \E i \in 1..Len(Referrers(la)) :
       \/ la.s.closure.nil
       \/ has(la.s.f, la.s.closure, succ, la.s.f.heap[Referrers(la)[i]].block)
\* the sigmas of y: one for every successor edge, nil (0) where not live
RECURSIVE MakeSigmas(_, _, _, _)
MakeSigmas(la, y, i, sigmas) ==
    LET succs == la.s.f.Blocks[y].Succs IN
    IF i > Len(succs) THEN [la |-> la, sigmas |-> sigmas]
    ELSE IF SigmaLive(la, succs[i])
    THEN MakeSigmas([la EXCEPT !.s.f.heap =
                        Append(@, [Instr("Sigma", <<la.alloc>>, succs[i]) EXCEPT !.From = y])],
                    y, i + 1, Append(sigmas, Len(la.s.f.heap) + 1))
    ELSE MakeSigmas(la, y, i + 1, Append(sigmas, 0))
\* the body of "if Asigma.Add(y)"
PlaceSigmas(la, y) ==
    LET made == MakeSigmas(la, y, 1, <<>>) IN
    IF \A i \in 1..Len(made.sigmas) : made.sigmas[i] = 0 THEN made.la
    ELSE [made.la EXCEPT
            !.s.newSigmas[y] = Append(@, [alloc |-> la.alloc, sigmas |-> made.sigmas]),
            !.defblocks = AddBlocks(@, la.s.f.Blocks[y].Succs, 1),
            !.change = TRUE,
            !.useblocks = BlockSetAdd(@, y),
            !.W = IF la.useblocks.values[y] THEN @ ELSE BlockSetAdd(@, y)]
RECURSIVE SigmaFrontier(_, _, _)
SigmaFrontier(la, ys, k) ==
    IF k > Len(ys) THEN la
    ELSE IF la.Asigma.values[ys[k]] THEN SigmaFrontier(la, ys, k + 1)
    ELSE SigmaFrontier(PlaceSigmas([la EXCEPT !.Asigma = BlockSetAdd(@, ys[k])], ys[k]), ys, k + 1)
RECURSIVE SigmaTake(_)
SigmaTake(la) ==
    LET t == BlockSetTake(la.W) IN
    IF t.i = -1 THEN la
    ELSE SigmaTake(SigmaFrontier([la EXCEPT !.W = t.s], la.s.rdf[t.i], 1))

\* one round of the loop: the phi pass over the iterated dominance frontier,
\* then the sigma pass over the iterated post-dominance frontier
PlaceRound(la) ==
    LET a == PhiTake([la EXCEPT !.change = FALSE, !.W = BlockSetSet(@, la.defblocks)])
    IN SigmaTake([a EXCEPT !.W = BlockSetSet(@, a.useblocks)])
\* "for change := true; change;"
RECURSIVE PlaceUntilStable(_)
PlaceUntilStable(la) ==
    LET b == PlaceRound(la) IN IF b.change THEN PlaceUntilStable(b) ELSE b

\* liftAlloc up to its loop: the five sets, defblocks and useblocks filled
liftAllocBegin(s, alloc) ==
    LET n == NumBlocks(s.f)
        la == DefUse([s |-> s, alloc |-> alloc, change |-> TRUE,
                      defblocks |-> NewBlockSet(n), useblocks |-> NewBlockSet(n),
                      Aphi |-> NewBlockSet(n), Asigma |-> NewBlockSet(n),
                      W |-> NewBlockSet(n)], 1)
    IN IF la.s.err # "none" THEN la
       ELSE [la EXCEPT !.defblocks = BlockSetAdd(@, s.f.heap[alloc].block)]
liftAlloc(s, alloc) ==
    LET la == liftAllocBegin(s, alloc) IN
    IF la.s.err # "none" THEN la.s ELSE PlaceUntilStable(la).s

\* the loop over the instructions of every block that calls liftAlloc
RECURSIVE LiftAllocsIn(_, _, _)
LiftAllocsIn(s, instrs, i) ==
    IF i > Len(instrs) \/ s.err # "none" THEN s
    ELSE IF instrs[i] # 0 /\ s.f.heap[instrs[i]].kind = "Alloc" /\ s.f.heap[instrs[i]].index >= 0
    THEN LiftAllocsIn(liftAlloc(s, instrs[i]), instrs, i + 1)
    ELSE LiftAllocsIn(s, instrs, i + 1)
RECURSIVE LiftAllocsFrom(_, _)
LiftAllocsFrom(s, b) ==
    IF b \notin DOMAIN s.f.Blocks \/ s.err # "none" THEN s
    ELSE LiftAllocsFrom(LiftAllocsIn(s, s.f.Blocks[b].Instrs, 1), b + 1)

\* the Allocs that the loops over the blocks call liftAlloc for, in order
RECURSIVE AllocsToLift(_, _)
AllocsToLift(f, b) ==
    IF b \notin DOMAIN f.Blocks THEN <<>>
    ELSE SelectSeq(f.Blocks[b].Instrs,
                   LAMBDA i : i # 0 /\ f.heap[i].kind = "Alloc" /\ f.heap[i].index >= 0)
         \o AllocsToLift(f, b + 1)

(***************************************************************************)
(* Renaming                                                                *)
(***************************************************************************)
\* replaceAll: every use of x becomes a use of y
RECURSIVE ReplaceAllFrom(_, _, _, _, _)
ReplaceAllFrom(heap, refs, i, x, y) ==
    IF i > Len(refs) THEN heap
    ELSE LET instr == refs[i]
             ops == heap[instr].ops
             h == [heap EXCEPT ![instr].ops = [k \in 1..Len(ops) |-> IF ops[k] = x THEN y ELSE ops[k]]]
         IN ReplaceAllFrom([h EXCEPT ![y].refs = Append(@, instr)], refs, i + 1, x, y)
replaceAll(heap, x, y) ==
    [ReplaceAllFrom(heap, heap[x].refs, 1, x, y) EXCEPT ![x].refs = <<>>]

\* emitConst of the zero constant of the cells' type: the function keeps
\* one Const per type and value
emitConst(f) ==
    IF f.zero # 0 THEN f
    ELSE [f EXCEPT !.heap = Append(@, Instr("Const", <<>>, -1)), !.zero = Len(f.heap) + 1]
\* a renaming that forgets the Stores: every cell is its zero value
renamedZero(r, alloc) ==
    LET f1 == emitConst(r.s.f) IN [r EXCEPT !.s.f = f1, !.val = f1.zero]
\* renamed: r holds the function (in r.s.f) and the renaming; the result is
\* r afterwards, its field val the value alloc is renamed to
renamed(r, alloc) ==
    LET idx == r.s.f.heap[alloc].index
        f1 == emitConst(r.s.f)
    IN IF r.renaming[idx] # 0 THEN [r EXCEPT !.val = r.renaming[idx]]
       ELSE [r EXCEPT !.s.f = f1, !.renaming[idx] = f1.zero, !.val = f1.zero]

\* a test that takes the cell with index 0 for one that was not lifted
IsLiftedAllocLater(heap, v) == v # 0 /\ heap[v].kind = "Alloc" /\ heap[v].index > 0
\* v is a cell that is being lifted
IsLiftedAlloc(heap, v) == v # 0 /\ heap[v].kind = "Alloc" /\ heap[v].index >= 0
\* u.Instrs[i] = nil; u.gaps++   (i counts from 1 here)
Kill(r, u, i) == [r EXCEPT !.s.f.Blocks[u].Instrs[i] = 0, !.s.f.Blocks[u].gaps = @ + 1]

\* the switch of rename for the i-th instruction of u
RenameInstr(r, u, i) ==
    LET heap == r.s.f.heap
        instr == r.s.f.Blocks[u].Instrs[i]
    IN IF instr = 0 THEN r
       ELSE CASE heap[instr].kind = "Alloc" ->
                   IF heap[instr].index >= 0
                   THEN Kill([r EXCEPT !.renaming[heap[instr].index] = 0], u, i)
                   ELSE r
              [] heap[instr].kind = "Store" ->
                   LET Addr == heap[instr].ops[1]
                       Val == heap[instr].ops[2]
                       h1 == [heap EXCEPT ![Addr].refs = removeInstr(@, instr)]
                       h2 == IF Val = 0 THEN h1 ELSE [h1 EXCEPT ![Val].refs = removeInstr(@, instr)]
                   IN IF IsLiftedAlloc(heap, Addr)
                      THEN Kill([r EXCEPT !.renaming[heap[Addr].index] = Val, !.s.f.heap = h2], u, i)
                      ELSE r
              [] heap[instr].kind = "Load" ->
                   IF IsLiftedAlloc(heap, heap[instr].ops[1])
                   THEN LET r1 == renamed(r, heap[instr].ops[1]) IN
                        IF r1.val = 0 THEN [r1 EXCEPT !.s.err = "nil dereference"]
                        ELSE Kill([r1 EXCEPT !.s.f.heap = replaceAll(@, instr, r1.val)], u, i)
                   ELSE r
              [] heap[instr].kind = "DebugRef" ->
                   IF IsLiftedAlloc(heap, heap[instr].ops[1])
                   THEN IF heap[instr].flag
                        THEN LET r1 == renamed(r, heap[instr].ops[1]) IN
                             [r1 EXCEPT !.s.f.heap[instr].ops[1] = r1.val,
                                        !.s.f.heap[instr].flag = FALSE,
                                        !.s.f.heap[r1.val].refs = Append(@, instr)]
                        ELSE Kill([r EXCEPT !.s.f.heap[instr].ops[1] = 0], u, i)
                   ELSE r
              [] OTHER -> r
RECURSIVE RenameInstrs(_, _, _)
RenameInstrs(r, u, i) ==
    IF i > Len(r.s.f.Blocks[u].Instrs) \/ r.s.err # "none" THEN r
    ELSE RenameInstrs(RenameInstr(r, u, i), u, i + 1)

\* each phi of u becomes the new name of its alloc
RECURSIVE AdoptPhis(_, _, _)
AdoptPhis(r, nps, k) ==
    IF k > Len(nps) THEN r
    ELSE AdoptPhis([r EXCEPT !.renaming[r.s.f.heap[nps[k].alloc].index] = nps[k].phi], nps, k + 1)

\* the sigmas leaving u get the dominating value as X: the k-th newSigma
\* from its i-th sigma on
RECURSIVE SetSigmaX(_, _, _, _)
SetSigmaX(r, u, k, i) ==
    LET nss == r.s.newSigmas[u] IN
    IF k > Len(nss) THEN r
    ELSE IF i > Len(nss[k].sigmas) THEN SetSigmaX(r, u, k + 1, 1)
    ELSE IF nss[k].sigmas[i] = 0 THEN SetSigmaX(r, u, k, i + 1)
    ELSE LET r1 == renamed(r, nss[k].alloc) IN
         SetSigmaX([r1 EXCEPT !.s.f.heap[nss[k].sigmas[i]].ops[1] = r1.val], u, k, i + 1)

\* the sigma of alloc on the succi-th edge out of u (succi from 1), 0 if none
SigmaOnEdge(r, u, alloc, succi) ==
    LET nss == r.s.newSigmas[u]
        found == {k \in 1..Len(nss) : nss[k].alloc = alloc /\ nss[k].sigmas[succi] # 0}
    IN IF found = {} THEN 0 ELSE nss[Min(found)].sigmas[succi]
\* the edge from u of the phis of v, reached over the succi-th edge, from
\* the k-th phi on; i is v.predIndex(u)
RECURSIVE SetEdges(_, _, _, _, _, _)
SetEdges(r, u, succi, phis, i, k) ==
    IF k > Len(phis) \/ r.s.err # "none" THEN r
    ELSE LET sigma == SigmaOnEdge(r, u, phis[k].alloc, succi)
             r1 == IF sigma # 0 THEN [r EXCEPT !.val = sigma] ELSE renamed(r, phis[k].alloc)
         IN IF i < 0 THEN [r EXCEPT !.s.err = "index out of range"]
            ELSE SetEdges([r1 EXCEPT !.s.f.heap[phis[k].phi].ops[i + 1] = r1.val,
                                     !.s.f.heap[r1.val].refs = Append(@, phis[k].phi)],
                          u, succi, phis, i, k + 1)
RECURSIVE RenameEdges(_, _, _)
RenameEdges(r, u, succi) ==
    LET succs == r.s.f.Blocks[u].Succs IN
    IF succi > Len(succs) \/ r.s.err # "none" THEN r
    ELSE RenameEdges(SetEdges(r, u, succi, r.s.newPhis[succs[succi]],
                              predIndex(r.s.f, succs[succi], u), 1),
                     u, succi + 1)

\* on entry to child v of u the sigmas of the first edge from u to v become
\* the values of their allocs
RECURSIVE EnterChild(_, _, _, _)
EnterChild(renaming, f, nss, idx) ==
    IF Len(nss) = 0 \/ idx = -1 THEN renaming
    ELSE LET first == nss[1] IN
         EnterChild(IF first.sigmas[idx + 1] # 0
                       THEN [renaming EXCEPT ![f.heap[first.alloc].index] = first.sigmas[idx + 1]]
                       ELSE renaming,
                       f, Tail(nss), idx)

RECURSIVE rename(_, _, _)
RECURSIVE RenameChildren(_, _, _, _)
\* the recursion over the children of u in the dominator tree from the k-th
RenameChildren(s, u, renaming, k) ==
    LET children == s.f.children[u] IN
    IF k > Len(children) \/ s.err # "none" THEN s
    ELSE RenameChildren(
             rename(s, children[k],
                    EnterChild(renaming, s.f, s.newSigmas[u], succIndex(s.f, u, children[k]))),
             u, renaming, k + 1)
rename(s, u, renaming) ==
    LET r0 == AdoptPhis([s |-> s, renaming |-> renaming, val |-> 0], s.newPhis[u], 1)
        r1 == RenameInstrs(r0, u, 1)
        r2 == IF r1.s.err # "none" THEN r1 ELSE SetSigmaX(r1, u, 1, 1)
        r3 == IF r2.s.err # "none" THEN r2 ELSE RenameEdges(r2, u, 1)
    IN RenameChildren(r3.s, u, r3.renaming, 1)

(***************************************************************************)
(* Trivial, duplicate and dead phi- and sigma-nodes                        *)
(***************************************************************************)
\* the phis of newPhis, and the sigmas of newSigmas, in the order the loops
\* over the maps meet them, from block b on
RECURSIVE PhisFrom(_, _)
PhisFrom(s, b) ==
    IF b \notin DOMAIN s.newPhis THEN <<>>
    ELSE [k \in 1..Len(s.newPhis[b]) |-> s.newPhis[b][k].phi] \o PhisFrom(s, b + 1)
RECURSIVE Flatten(_)
Flatten(ss) == IF Len(ss) = 0 THEN <<>> ELSE Head(ss) \o Flatten(Tail(ss))
\* the sigmas of block b with the number of their successor edge
SigmasOf(s, b) ==
    Flatten([k \in 1..Len(s.newSigmas[b]) |->
                LET sg == s.newSigmas[b][k].sigmas IN
                SelectSeq([i \in 1..Len(sg) |-> [succ |-> i - 1, sigma |-> sg[i]]],
                          LAMBDA e : e.sigma # 0)])
RECURSIVE SigmasFrom(_, _)
SigmasFrom(s, b) ==
    IF b \notin DOMAIN s.newSigmas THEN <<>> ELSE SigmasOf(s, b) \o SigmasFrom(s, b + 1)

\* the temporary numbering of the edges: the i-th edge of the k-th phi on
RECURSIVE NumberEdges(_, _, _, _, _)
NumberEdges(s, phis, k, i, id) ==
    IF k > Len(phis) THEN s
    ELSE LET edges == s.f.heap[phis[k]].ops IN
         IF i > Len(edges) THEN NumberEdges(s, phis, k + 1, 1, id)
         ELSE IF edges[i] = 0 THEN [s EXCEPT !.err = "nil dereference"]
         ELSE NumberEdges([s EXCEPT !.f.heap[edges[i]].ID = id], phis, k, i + 1, id + 1)

\* isUselessPhi: the one value all edges other than the phi itself are, 0 if
\* there is no such value
isUselessPhi(heap, phi) ==
    LET others == SeqToSet(heap[phi].ops) \ {phi} IN
    IF Cardinality(others) = 1 THEN CHOOSE v \in others : TRUE ELSE 0

\* a retiring that leaves the node unmarked
RetireUnmarked(s, x, y) ==
    [s EXCEPT !.f.heap = replaceAll(@, x, y), !.changed = TRUE]
\* x is replaced by y and marked ('live' meaning dead here)
Retire(s, x, y) ==
    [s EXCEPT !.f.heap = [replaceAll(@, x, y) EXCEPT ![x].live = TRUE], !.changed = TRUE]

RECURSIVE UselessPhis(_, _, _)
UselessPhis(s, phis, k) ==
    IF k > Len(phis) \/ s.err # "none" THEN s
    ELSE LET r == isUselessPhi(s.f.heap, phis[k]) IN
         IF s.f.heap[phis[k]].live \/ r = 0 THEN UselessPhis(s, phis, k + 1)
         ELSE UselessPhis(Retire(s, phis[k], r), phis, k + 1)

\* duplicates among the sigmas es of one block, from the k-th on; primary
\* maps a key to the first sigma that had it
RECURSIVE DuplicateSigmas(_, _, _, _)
DuplicateSigmas(s, es, k, primary) ==
    IF k > Len(es) THEN s
    ELSE LET sigma == es[k].sigma
             key == <<es[k].succ, s.f.heap[sigma].ops[1]>>
         IN IF s.f.heap[sigma].live THEN DuplicateSigmas(s, es, k + 1, primary)
            ELSE IF key \in DOMAIN primary
            THEN DuplicateSigmas(Retire(s, sigma, primary[key]), es, k + 1, primary)
            ELSE DuplicateSigmas(s, es, k + 1, primary @@ (key :> sigma))
RECURSIVE DuplicateSigmasFrom(_, _)
DuplicateSigmasFrom(s, b) ==
    IF b \notin DOMAIN s.newSigmas THEN s
    ELSE DuplicateSigmasFrom(DuplicateSigmas(s, SigmasOf(s, b), 1, <<>>), b + 1)

\* the map key of a phi: the IDs of its edges
PhiKey(heap, phi) == [i \in 1..Len(heap[phi].ops) |-> heap[heap[phi].ops[i]].ID]
RECURSIVE DuplicatePhis(_, _, _, _)
DuplicatePhis(s, nps, k, primary) ==
    IF k > Len(nps) THEN s
    ELSE LET phi == nps[k].phi
             key == PhiKey(s.f.heap, phi)
         IN IF s.f.heap[phi].live THEN DuplicatePhis(s, nps, k + 1, primary)
            ELSE IF key \in DOMAIN primary
            THEN DuplicatePhis(Retire(s, phi, primary[key]), nps, k + 1, primary)
            ELSE DuplicatePhis(s, nps, k + 1, primary @@ (key :> phi))
RECURSIVE DuplicatePhisFrom(_, _)
DuplicatePhisFrom(s, b) ==
    IF b \notin DOMAIN s.newPhis THEN s
    ELSE DuplicatePhisFrom(DuplicatePhis(s, s.newPhis[b], 1, <<>>), b + 1)

\* one round of the loop: useless phis, duplicate sigmas, duplicate phis
SimplifyRound(s) ==
    LET a == UselessPhis([s EXCEPT !.changed = FALSE], PhisFrom(s, 0), 1)
    IN IF a.err # "none" THEN a ELSE DuplicatePhisFrom(DuplicateSigmasFrom(a, 0), 0)
\* "for changed := true; changed;"
RECURSIVE SimplifyUntilStable(_)
SimplifyUntilStable(s) ==
    LET b == SimplifyRound(s) IN
    IF b.err = "none" /\ b.changed THEN SimplifyUntilStable(b) ELSE b

\* the marks and the numbering are taken back
RECURSIVE ResetPhis(_, _, _)
ResetPhis(heap, phis, k) ==
    IF k > Len(phis) THEN heap
    ELSE LET edges == heap[phis[k]].ops
             h == [heap EXCEPT ![phis[k]].live = FALSE]
         IN ResetPhis([v \in DOMAIN h |-> IF v \in SeqToSet(edges) THEN [h[v] EXCEPT !.ID = 0] ELSE h[v]],
                      phis, k + 1)
ResetSigmas(heap, es) ==
    [v \in DOMAIN heap |->
        IF \E k \in 1..Len(es) : es[k].sigma = v THEN [heap[v] EXCEPT !.live = FALSE] ELSE heap[v]]

SimplifyReset(l) ==
    [l EXCEPT !.f.heap = ResetSigmas(ResetPhis(@, PhisFrom(l, 0), 1), SigmasFrom(l, 0))]
simplifyPhisAndSigmas(s0) ==
    LET s == [changed |-> TRUE] @@ s0
        n == NumberEdges(s, PhisFrom(s, 0), 1, 1, 0)
        l == SimplifyUntilStable(n)
        done == IF n.err # "none" THEN n
                ELSE IF l.err # "none" THEN l
                ELSE SimplifyReset(l)
    IN [k \in DOMAIN s0 |-> done[k]]

hasDirectReferrer(heap, instr) ==
    \E i \in 1..Len(heap[instr].refs) : heap[heap[instr].refs[i]].kind \notin {"Phi", "Sigma"}

\* markLivePhi and markLiveSigma: v and every phi and sigma reached from it
\* over operands without passing a node that is live already
RECURSIVE MarkLive(_, _)
RECURSIVE MarkOperands(_, _, _)
MarkOperands(heap, ops, i) ==
    IF i > Len(ops) THEN heap
    ELSE IF /\ ops[i] # 0
            /\ heap[ops[i]].kind \in {"Phi", "Sigma"}
            /\ ~heap[ops[i]].live
    THEN MarkOperands(MarkLive(heap, ops[i]), ops, i + 1)
    ELSE MarkOperands(heap, ops, i + 1)
MarkLive(heap, v) == MarkOperands([heap EXCEPT ![v].live = TRUE], heap[v].ops, 1)

\* the first two loops of markLiveNodes, over the nodes vs from the k-th on
RECURSIVE MarkReferred(_, _, _)
MarkReferred(heap, vs, k) ==
    IF k > Len(vs) THEN heap
    ELSE IF ~heap[vs[k]].live /\ hasDirectReferrer(heap, vs[k])
    THEN MarkReferred(MarkLive(heap, vs[k]), vs, k + 1)
    ELSE MarkReferred(heap, vs, k + 1)
\* BasicBlock.phis: the phi-nodes a block begins with
phis(f, b) ==
    LET is == f.Blocks[b].Instrs
        stop == {i \in 1..Len(is) : is[i] = 0 \/ f.heap[is[i]].kind # "Phi"}
    IN IF stop = {} THEN <<>> ELSE SubSeq(is, 1, Min(stop) - 1)
RECURSIVE MarkAll(_, _, _)
MarkAll(heap, vs, k) ==
    IF k > Len(vs) THEN heap ELSE MarkAll(MarkLive(heap, vs[k]), vs, k + 1)
RECURSIVE MarkExisting(_, _, _)
MarkExisting(f, heap, b) ==
    IF b \notin DOMAIN f.Blocks THEN heap
    ELSE MarkExisting(f, MarkAll(heap, phis(f, b), 1), b + 1)
markLiveNodes(s) ==
    LET sigmas == SigmasFrom(s, 0)
        h1 == MarkReferred(s.f.heap, PhisFrom(s, 0), 1)
        h2 == MarkReferred(h1, [k \in 1..Len(sigmas) |-> sigmas[k].sigma], 1)
    IN [s EXCEPT !.f.heap = MarkExisting(s.f, h2, 0)]

(***************************************************************************)
(* lift, last part: the blocks are put together again                      *)
(***************************************************************************)
\* most spare capacity a block's Instrs slice has when lift is called
MaxSlack == 1

\* the sigmas on the first edge from pred into b, from the k-th newSigma of
\* pred on: a live one goes to the head and becomes a referrer of its X, a
\* dead one loses its block
RECURSIVE HeadSigmas(_, _, _, _)
HeadSigmas(r, nss, idx, k) ==
    IF k > Len(nss) \/ r.s.err # "none" THEN r
    ELSE IF idx < 0 THEN [r EXCEPT !.s.err = "index out of range"]
    ELSE LET sigma == nss[k].sigmas[idx + 1]
             X == r.s.f.heap[sigma].ops[1]
         IN IF sigma = 0 THEN HeadSigmas(r, nss, idx, k + 1)
            ELSE IF ~r.s.f.heap[sigma].live
            THEN HeadSigmas([r EXCEPT !.s.f.heap[sigma].block = -1], nss, idx, k + 1)
            ELSE IF X = 0 THEN [r EXCEPT !.s.err = "nil dereference"]
            ELSE HeadSigmas([r EXCEPT !.head = Append(@, sigma),
                                      !.s.f.heap[X].refs = Append(@, sigma)],
                            nss, idx, k + 1)
\* the loop over b.Preds from the p-th on
RECURSIVE HeadOfPreds(_, _, _)
HeadOfPreds(r, b, p) ==
    LET preds == r.s.f.Blocks[b].Preds IN
    IF p > Len(preds) \/ r.s.err # "none" THEN r
    ELSE HeadOfPreds(HeadSigmas(r, r.s.newSigmas[preds[p]], succIndex(r.s.f, preds[p], b), 1),
                     b, p + 1)
\* a compaction that leaves a dropped phi among the referrers of its edges
DropFromEdgesNot(heap, edges, i, phi) == heap
\* phi is no referrer of its edges any more
RECURSIVE DropFromEdges(_, _, _, _)
DropFromEdges(heap, edges, i, phi) ==
    IF i > Len(edges) THEN heap
    ELSE DropFromEdges([heap EXCEPT ![edges[i]].refs = removeInstr(@, phi)], edges, i + 1, phi)
\* the loop over the phis of b from the k-th on
RECURSIVE HeadPhis(_, _, _)
HeadPhis(r, nps, k) ==
    IF k > Len(nps) \/ r.s.err # "none" THEN r
    ELSE LET phi == nps[k].phi
             edges == r.s.f.heap[phi].ops
         IN IF r.s.f.heap[phi].live THEN HeadPhis([r EXCEPT !.head = Append(@, phi)], nps, k + 1)
            ELSE IF 0 \in SeqToSet(edges) THEN [r EXCEPT !.s.err = "nil dereference"]
            ELSE HeadPhis([r EXCEPT !.s.f.heap =
                               [DropFromEdges(@, edges, 1, phi) EXCEPT ![phi].block = -1]],
                          nps, k + 1)

\* a compaction that drops the RunDefers whether or not there is a Defer
KeptNoRunDefers(s, b) ==
    SelectSeq(s.f.Blocks[b].Instrs, LAMBDA i : i # 0 /\ s.f.heap[i].kind # "RunDefers")
\* a compaction that keeps the RunDefers whether or not there is a Defer
KeptAll(s, b) == SelectSeq(s.f.Blocks[b].Instrs, LAMBDA i : i # 0)
\* the instructions of b that stay
Kept(s, b) ==
    SelectSeq(s.f.Blocks[b].Instrs,
              LAMBDA i : i # 0 /\ (s.usesDefer \/ s.f.heap[i].kind # "RunDefers"))
\* lines 398-418, the loop: the instructions that stay are moved to the end
\* of dst, from the last one down; n and i count from 1
RECURSIVE ReuseFill(_, _, _, _)
ReuseFill(dst, stays, n, i) ==
    IF n = 0 THEN [dst |-> dst, i |-> i]
    ELSE IF dst[n] \notin stays THEN ReuseFill(dst, stays, n - 1, i)
    ELSE ReuseFill([dst EXCEPT ![i] = dst[n]], stays, n - 1, i - 1)
\* a reuse of the array that puts the head behind the instructions
ReuseStorageHeadLast(s, b, head, capacity) ==
    [err |-> "none", Instrs |-> Kept(s, b) \o head]
\* lines 393-418: the array of b.Instrs is reused
ReuseStorage(s, b, head, capacity) ==
    LET instrs == s.f.Blocks[b].Instrs
        dst == instrs \o [k \in 1..(capacity - Len(instrs)) |-> 0]
        r == ReuseFill(dst, SeqToSet(Kept(s, b)), Len(instrs), capacity)
        off == r.i - Len(head)
    IN IF off < 0 THEN [err |-> "slice bounds out of range", Instrs |-> instrs]
       ELSE [err |-> "none", Instrs |-> head \o SubSeq(r.dst, r.i + 1, capacity)]
\* lines 425-437, the loop: the instructions that stay are written behind
\* the head; j counts from 0 as in the code
RECURSIVE FreshFill(_, _, _, _, _)
FreshFill(dst, instrs, stays, n, j) ==
    IF n > Len(instrs) THEN [err |-> "none", Instrs |-> dst]
    ELSE IF instrs[n] \notin stays THEN FreshFill(dst, instrs, stays, n + 1, j)
    ELSE IF j >= Len(dst) THEN [err |-> "index out of range", Instrs |-> instrs]
    ELSE FreshFill([dst EXCEPT ![j + 1] = instrs[n]], instrs, stays, n + 1, j + 1)
\* lines 419-439: a new array of length ns
FreshStorage(s, b, head, ns) ==
    LET instrs == s.f.Blocks[b].Instrs IN
    IF ns < 0 THEN [err |-> "makeslice: len out of range", Instrs |-> instrs]
    ELSE FreshFill([k \in 1..ns |-> IF k <= Len(head) THEN head[k] ELSE 0],
                   instrs, SeqToSet(Kept(s, b)), 1, Len(head))
\* the head of b and the state its making leaves: lines 341-374
HeadOf(s, b) ==
    IF s.numAllocs > 0
    THEN HeadPhis(HeadOfPreds([s |-> s, head |-> <<>>], b, 1), s.newPhis[b], 1)
    ELSE [s |-> s, head |-> <<>>]
\* ns of line 392
NewSize(r, b) ==
    LET blk == r.s.f.Blocks[b] IN
    Len(blk.Instrs) + Len(r.head) - blk.gaps - (IF r.s.usesDefer THEN 0 ELSE blk.rundefers)
\* cap(b.Instrs); slack is the spare capacity of a slice lift did not make
Capacity(blk, slack) == IF blk.cap = -1 THEN Len(blk.Instrs) + slack ELSE blk.cap
\* one round of the loop over the blocks; s.paths (history) notes the path
\* the round took
CompactBlock(s, b, slack) ==
    LET r == HeadOf(s, b)
        blk == r.s.f.Blocks[b]
        rundefersToKill == IF s.usesDefer THEN 0 ELSE blk.rundefers
        j == Len(r.head)
        ns == NewSize(r, b)
        capacity == Capacity(blk, slack)
        reuse == ns <= capacity
        out == IF reuse THEN ReuseStorage(r.s, b, r.head, capacity)
               ELSE FreshStorage(r.s, b, r.head, ns)
    IN IF r.s.err # "none" THEN r.s
       ELSE IF j + blk.gaps + rundefersToKill = 0
       THEN [r.s EXCEPT !.paths = Append(@, "fast")]
       ELSE [r.s EXCEPT !.err = out.err,
                        !.f.Blocks[b].Instrs = out.Instrs,
                        !.f.Blocks[b].cap = IF out.err = "none" THEN Len(out.Instrs) ELSE @,
                        !.paths = Append(@, IF reuse THEN "reuse" ELSE "fresh")]
RECURSIVE CompactFrom(_, _, _)
CompactFrom(s, b, slack) ==
    IF b \notin DOMAIN s.f.Blocks \/ s.err # "none" THEN s
    ELSE CompactFrom(CompactBlock(s, b, slack), b + 1, slack)

\* a trimming that keeps every local
TrimLocalsNone(f) == f
\* a trimming that loses the first local, lifted or not
TrimLocalsFirst(f) == [f EXCEPT !.Locals = IF Len(@) = 0 THEN @ ELSE Tail(@)]
\* fn.Locals without the Allocs that were lifted
TrimLocals(f) == [f EXCEPT !.Locals = SelectSeq(@, LAMBDA l : f.heap[l].index < 0)]

\* the ssa:deferstack() call is taken out of its block
EliminateDeferStack(s) ==
    LET b == s.f.heap[s.deferstackCall].block
        at == IndexOf(s.f.Blocks[b].Instrs, s.deferstackCall)
    IN IF ~s.eliminateDeferStack THEN s
       ELSE IF b = -1 THEN [s EXCEPT !.err = "nil dereference"]
       ELSE IF at = -1 THEN s
       ELSE [s EXCEPT !.f.Blocks[b].Instrs[at + 1] = 0, !.f.Blocks[b].gaps = @ + 1]

(***************************************************************************)
(* The calls of lift on a function, step by step                           *)
(***************************************************************************)
LiftState == [f |-> function] @@ lw
\* the step leaves lift's state as s, at position pos unless s.err says that
\* the step panicked
Becomes(s, pos) ==
    /\ function' = s.f
    /\ lw' = [k \in (DOMAIN s) \ {"f"} |-> s[k]]
    /\ lpc' = IF s.err = "none" THEN pos ELSE "panic"

Idle == [err |-> "none"]
LInit ==
    /\ function \in Functions
    /\ lpc = "idle"
    /\ lw = Idle
    /\ runs = 0
    /\ fn0 = function
    /\ rets = <<>>
    /\ clock = 0

\* lift is called: lines 208-275
LiftClassify ==
    /\ lpc = "idle"
    /\ runs < MaxRuns
    /\ runs' = runs + 1
    /\ fn0' = function
    /\ Becomes(Classify(function), "classified")
    /\ clock' = clock + 1
    /\ UNCHANGED <<rets, mvars, gotypesalias, hvars>>
\* lines 277-299
LiftSplit ==
    /\ lpc = "classified"
    /\ lw.numAllocs > 0
    /\ Becomes(ApplySplits(LiftState), "split")
    /\ clock' = clock + 1
    /\ UNCHANGED <<runs, fn0, rets, mvars, gotypesalias, hvars>>
\* lines 303-309
LiftPlace ==
    /\ lpc = "split"
    /\ Becomes(LiftAllocsFrom(LiftState, 0), "placed")
    /\ clock' = clock + 1
    /\ UNCHANGED <<runs, fn0, rets, mvars, gotypesalias, hvars>>
\* lines 316-319
LiftRename ==
    /\ lpc = "placed"
    /\ Becomes(rename(LiftState, 0, [i \in 0..(lw.numAllocs - 1) |-> 0]), "renamed")
    /\ clock' = clock + 1
    /\ UNCHANGED <<runs, fn0, rets, mvars, gotypesalias, hvars>>
\* line 321
LiftSimplify ==
    /\ lpc = "renamed"
    /\ Becomes(simplifyPhisAndSigmas(LiftState), "simplified")
    /\ clock' = clock + 1
    /\ UNCHANGED <<runs, fn0, rets, mvars, gotypesalias, hvars>>
\* lines 324-336
LiftMarkLive ==
    /\ lpc = "simplified"
    /\ Becomes(EliminateDeferStack(markLiveNodes(LiftState)), "marked")
    /\ clock' = clock + 1
    /\ UNCHANGED <<runs, fn0, rets, mvars, gotypesalias, hvars>>
\* lines 340-456: lift returns
LiftCompact ==
    /\ \/ lpc = "marked"
       \/ lpc = "classified" /\ lw.numAllocs = 0
    /\ \E slack \in 0..MaxSlack :
          LET s == CompactFrom([paths |-> <<>>] @@ LiftState, 0, slack) IN
          Becomes([s EXCEPT !.f = TrimLocals(@)], "done")
    /\ rets' = IF lpc' = "done" THEN Append(rets, lw.numAllocs > 0) ELSE rets
    /\ clock' = clock + 1
    /\ UNCHANGED <<runs, fn0, mvars, gotypesalias, hvars>>
\* the caller is back and may call lift again
LiftReturn ==
    /\ lpc = "done"
    /\ runs < MaxRuns
    /\ lpc' = "idle"
    /\ lw' = Idle
    /\ clock' = clock + 1
    /\ UNCHANGED <<function, runs, fn0, rets, mvars, gotypesalias, hvars>>

LNext ==
    \/ LiftClassify
    \/ LiftSplit
    \/ LiftPlace
    \/ LiftRename
    \/ LiftSimplify
    \/ LiftMarkLive
    \/ LiftCompact
    \/ LiftReturn

(***************************************************************************)
(* The interval encoding of the reachability index on its own              *)
(***************************************************************************)
Starts == {0, 1, 7, 2 ^ numBits - 1, 2 ^ numBits, 2 ^ numBits + 5}
Lengths == {0, 1, 2 ^ lengthBits - 1, 2 ^ lengthBits, 5000, 2 ^ numBits, 2 ^ 30}
IvlInit ==
    ivl \in {[at |-> "drawn", start |-> s, end |-> s + l] : s \in Starts, l \in Lengths}
\* transitiveClosure appends the interval
IvlEncode ==
    /\ ivl.at = "drawn"
    /\ ivl' = [at |-> "encoded", start |-> ivl.start, end |-> ivl.end,
               words |-> addInterval(ivl.start, ivl.end)]
    /\ UNCHANGED <<mvars, gotypesalias, lvars, bset>>
\* has reads the bounds of the interval
IvlDecode ==
    /\ ivl.at = "encoded"
    /\ ivl' = [ivl EXCEPT !.at = "decoded"] @@ [read |-> decode(ivl.words, 1)]
    /\ UNCHANGED <<mvars, gotypesalias, lvars, bset>>
\* has looks for the index idx
IvlScan ==
    /\ ivl.at = "decoded"
    /\ \E idx \in {ivl.start - 1, ivl.start, ivl.end, ivl.end + 1} \cap Nat :
          ivl' = [ivl EXCEPT !.at = "scanned"]
                 @@ [idx |-> idx, found |-> InIntervals(ivl.words, 1, idx)]
    /\ UNCHANGED <<mvars, gotypesalias, lvars, bset>>
IvlNext == IvlEncode \/ IvlDecode \/ IvlScan

(***************************************************************************)
(* A BlockSet on its own                                                   *)
(***************************************************************************)
BlockSetSize == 3
Members(s) == {i \in DOMAIN s.values : s.values[i]}
\* the sets that Set may copy from: of the same size, smaller and larger
OtherSets ==
    UNION {{[idx |-> 0, values |-> v, count |-> Cardinality({i \in DOMAIN v : v[i]})] :
               v \in [0..(n - 1) -> BOOLEAN]} :
              n \in {BlockSetSize - 1, BlockSetSize, BlockSetSize + 1}}
\* bset.s is the set, op the last operation, before the members before it,
\* changed and i what Add and Take returned, base the members when the
\* current run of Takes began and taken what the run has returned
BsInit ==
    bset = [at |-> "made", s |-> NewBlockSet(BlockSetSize), op |-> "NewBlockSet", before |-> {},
            b |-> 0, changed |-> FALSE, i |-> -1, base |-> {}, taken |-> <<>>]
BsAdd ==
    /\ bset.at = "made"
    /\ \E b \in DOMAIN bset.s.values :
          LET r == AddResult(bset.s, b) IN
          bset' = [bset EXCEPT !.s = r.s, !.op = "Add", !.before = Members(bset.s), !.b = b,
                               !.changed = r.changed, !.i = -1,
                               !.base = Members(r.s), !.taken = <<>>]
    /\ UNCHANGED <<mvars, gotypesalias, lvars, ivl>>
BsTake ==
    /\ bset.at = "made"
    /\ LET r == BlockSetTake(bset.s) IN
       bset' = [bset EXCEPT !.s = r.s, !.op = "Take", !.before = Members(bset.s),
                            !.i = r.i, !.taken = IF r.i = -1 THEN @ ELSE Append(@, r.i)]
    /\ UNCHANGED <<mvars, gotypesalias, lvars, ivl>>
BsSet ==
    /\ bset.at = "made"
    /\ \E s2 \in OtherSets :
          LET s == BlockSetSet(bset.s, s2) IN
          bset' = [bset EXCEPT !.s = s, !.op = "Set", !.before = Members(bset.s), !.i = -1,
                               !.base = Members(s), !.taken = <<>>]
    /\ UNCHANGED <<mvars, gotypesalias, lvars, ivl>>
BsClear ==
    /\ bset.at = "made"
    /\ bset' = [bset EXCEPT !.s = BlockSetClear(bset.s), !.op = "Clear", !.before = Members(bset.s),
                            !.i = -1, !.base = {}, !.taken = <<>>]
    /\ UNCHANGED <<mvars, gotypesalias, lvars, ivl>>
BsNext == BsAdd \/ BsTake \/ BsSet \/ BsClear


(***************************************************************************)
(* lift with the rounds of its two fixpoint loops as steps                 *)
(***************************************************************************)
\* lift's state without the locals of the liftAlloc call in progress
Bare(s) == [k \in (DOMAIN s) \ {"la", "pending"} |-> s[k]]
liftAllocLocals(la) == [k \in (DOMAIN la) \ {"s"} |-> la[k]]

\* liftAlloc is called for the first of the Allocs pending, if there is one;
\* la.went counts the rounds of this call that reported a change
StartNext(s, pending) ==
    IF pending = <<>> THEN [s |-> s, pos |-> "placed"]
    ELSE LET la == liftAllocBegin(s, Head(pending)) IN
         IF la.s.err # "none" THEN [s |-> la.s, pos |-> "panic"]
         ELSE [s |-> [la |-> [went |-> 0] @@ liftAllocLocals(la), pending |-> Tail(pending)] @@ la.s,
               pos |-> "placing"]
\* lines 303-309, up to the loop of the first liftAlloc call; rounds is
\* history: the most rounds with a change that one liftAlloc call and
\* simplifyPhisAndSigmas have made in this call of lift
RoundsPlaceBegin ==
    /\ lpc = "split"
    /\ LET n == StartNext([rounds |-> [place |-> 0, simplify |-> 0]] @@ LiftState,
                          AllocsToLift(function, 0))
       IN Becomes(n.s, n.pos)
    /\ clock' = clock + 1
    /\ UNCHANGED <<runs, fn0, rets, mvars, gotypesalias, hvars>>
\* one round of liftAlloc's loop; after a round without change liftAlloc
\* returns and is called for the next Alloc
RoundsPlaceRound ==
    /\ lpc = "placing"
    /\ LET b == PlaceRound([s |-> Bare(LiftState)] @@ lw.la) IN
       IF b.change
       THEN Becomes([la |-> [liftAllocLocals(b) EXCEPT !.went = @ + 1], pending |-> lw.pending]
                    @@ [b.s EXCEPT !.rounds.place = Max({@, b.went + 1})],
                    "placing")
       ELSE LET n == StartNext(b.s, lw.pending) IN Becomes(n.s, n.pos)
    /\ clock' = clock + 1
    /\ UNCHANGED <<runs, fn0, rets, mvars, gotypesalias, hvars>>
\* line 321, up to the loop: the edges are numbered
RoundsSimplifyBegin ==
    /\ lpc = "renamed"
    /\ LET s == [changed |-> TRUE] @@ LiftState
       IN Becomes(NumberEdges(s, PhisFrom(s, 0), 1, 1, 0), "simplifying")
    /\ clock' = clock + 1
    /\ UNCHANGED <<runs, fn0, rets, mvars, gotypesalias, hvars>>
\* one round of the loop of simplifyPhisAndSigmas; after a round without
\* change the marks are taken back and it returns
RoundsSimplifyRound ==
    /\ lpc = "simplifying"
    /\ LET b == SimplifyRound(LiftState) IN
       IF b.err = "none" /\ b.changed
       THEN Becomes([b EXCEPT !.rounds.simplify = @ + 1], "simplifying")
       ELSE LET done == IF b.err # "none" THEN b ELSE SimplifyReset(b) IN
            Becomes([k \in (DOMAIN done) \ {"changed"} |-> done[k]], "simplified")
    /\ clock' = clock + 1
    /\ UNCHANGED <<runs, fn0, rets, mvars, gotypesalias, hvars>>
\* the functions whose loops are followed round by round: one cell that is
\* stored to, read and escaping on the looping graph and on the graph with
\* a loop without end, and the bodies with two cells on Triangle
RoundsFunctions ==
    {BuildFunction(EmptyFunction(g), p, "none", FALSE) :
        g \in {Loop, NoReturn},
        p \in {q \in Bodies(Loop) :
                  \A i \in 1..Len(q) : q[i][2] \in {[op |-> o, c |-> 1] : o \in {"Load", "Store", "Escape"}}}}
    \cup {BuildFunction(EmptyFunction(Triangle), p, "none", FALSE) : p \in ChainedTwice}
RoundsInit ==
    /\ function \in RoundsFunctions
    /\ lpc = "idle"
    /\ lw = Idle
    /\ runs = 0
    /\ fn0 = function
    /\ rets = <<>>
    /\ clock = 0
RoundsNext ==
    \/ LiftClassify
    \/ LiftSplit
    \/ RoundsPlaceBegin
    \/ RoundsPlaceRound
    \/ LiftRename
    \/ RoundsSimplifyBegin
    \/ RoundsSimplifyRound
    \/ LiftMarkLive
    \/ LiftCompact
    \/ LiftReturn


(***************************************************************************)
(* splitOnNewInformation: Copies that record what an instruction tells     *)
(* about its operands                                                      *)
(***************************************************************************)
\* CopyInfo is a set of bits; it is kept as the set of their names, and
\* CopyInfoUnspecified is the empty set
CopyInfoUnspecified == {}
CopyInfoNotNil == {"NotNil"}
CopyInfoNotNegative == {"NotNegative"}
CopyInfoSingleConcreteType == {"SingleConcreteType"}
CopyInfoClosed == {"Closed"}

\* StackMap: a stack of maps; Get looks from the top frame down
StackPush(sm) == Append(sm, <<>>)
StackPop(sm) == SubSeq(sm, 1, Len(sm) - 1)
StackHas(sm, k) == \E i \in 1..Len(sm) : k \in DOMAIN sm[i]
StackGet(sm, k) ==
    LET i == CHOOSE j \in 1..Len(sm) : k \in DOMAIN sm[j] /\ \A l \in (j + 1)..Len(sm) : k \notin DOMAIN sm[l]
    IN sm[i][k]
StackSet(sm, k, v) ==
    [sm EXCEPT ![Len(sm)] = [x \in (DOMAIN @) \cup {k} |-> IF x = k THEN v ELSE @[x]]]

\* copyValue, and the closure rename of splitOnNewInformation: the Copy of
\* v becomes the instruction after the i-th of block u (i counts from 0)
copyValue(heap, v, why, info, u) ==
    Append(IF heap[v].kind = "Builtin" THEN heap ELSE [heap EXCEPT ![v].refs = Append(@, Len(heap) + 1)],
           [Info |-> info, Why |-> why] @@ Instr("Copy", <<v>>, u))
splitRename(s, u, v, why, info, i) ==
    LET c == Len(s.f.heap) + 1
        is == s.f.Blocks[u].Instrs
    IN [s EXCEPT !.f.heap = copyValue(@, v, why, info, u),
                 !.renaming = StackSet(@, v, c),
                 !.f.Blocks[u].Instrs = SubSeq(is, 1, i + 1) \o <<c>> \o SubSeq(is, i + 2, Len(is))]

\* the closure replacement: the end of the chain of renamings of v
RECURSIVE ChainEnd(_, _)
ChainEnd(sm, r) == IF StackHas(sm, r) THEN ChainEnd(sm, StackGet(sm, r)) ELSE r
\* the operands of instr from the k-th on are replaced by their renamings
RECURSIVE ReplaceArgs(_, _, _)
ReplaceArgs(s, instr, k) ==
    LET ops == s.f.heap[instr].ops IN
    IF k > Len(ops) THEN s
    ELSE IF ops[k] = 0 \/ ~StackHas(s.renaming, ops[k]) THEN ReplaceArgs(s, instr, k + 1)
    ELSE LET r == ChainEnd(s.renaming, StackGet(s.renaming, ops[k])) IN
         ReplaceArgs([s EXCEPT !.renaming = StackSet(@, ops[k], r),
                               !.f.heap = replace([@ EXCEPT ![instr].ops[k] = r], instr, r, r)],
                     instr, k + 1)

\* a hasInfo that knows nothing
hasInfoNever(heap, v, info) == FALSE
RECURSIVE hasInfo(_, _, _)
hasInfo(heap, v, info) ==
    CASE heap[v].kind = "Copy" -> info \subseteq heap[v].Info \/ hasInfo(heap, heap[v].ops[1], info)
      [] heap[v].kind \in {"FieldAddr", "IndexAddr", "TypeAssert", "MakeChan", "MakeMap",
                           "MakeSlice", "Alloc", "Global", "Builtin"} -> info = CopyInfoNotNil
      [] heap[v].kind = "Sigma" -> hasInfo(heap, heap[v].ops[1], info)
      [] OTHER -> FALSE

\* r is where the switch stands: the state and the Copies inserted so far
\* after instruction i; the next Copy is put immediately after i as well
Renamed(r, u, v, why, info, i) == [s |-> splitRename(r.s, u, v, why, info, i), off |-> r.off + 1]
RenamedIf(cond, r, u, v, why, info, i) == IF cond THEN Renamed(r, u, v, why, info, i) ELSE r
\* the switch on the instruction at index i of block u
Refined(s, u, instr, i) ==
    LET h == s.f.heap
        x == h[instr].ops
        r0 == [s |-> s, off |-> 0]
        unlessNotNil(v) == RenamedIf(~hasInfo(h, v, CopyInfoNotNil), r0, u, v, instr, CopyInfoNotNil, i)
    IN CASE h[instr].kind = "IndexAddr" ->
              Renamed(Renamed(r0, u, x[2], instr, CopyInfoNotNegative, i),
                      u, x[1], instr, CopyInfoNotNil, i)
         [] h[instr].kind \in {"FieldAddr", "Load", "Store", "MapUpdate", "Recv", "Send"} ->
              unlessNotNil(x[1])
         [] h[instr].kind = "TypeAssert" ->
              RenamedIf(~hasInfo(h, x[1], CopyInfoNotNil \cup CopyInfoSingleConcreteType),
                        r0, u, x[1], instr, CopyInfoNotNil \cup CopyInfoSingleConcreteType, i)
         [] h[instr].kind = "Call" ->
              LET r1 == RenamedIf(~h[instr].flag /\ ~hasInfo(h, x[1], CopyInfoNotNil),
                                  r0, u, x[1], instr, CopyInfoNotNil, i)
              IN IF h[x[1]].kind = "Builtin" /\ h[x[1]].name = "close"
                 THEN RenamedIf(~hasInfo(r1.s.f.heap, x[2], CopyInfoNotNil \cup CopyInfoClosed),
                                r1, u, x[2], instr, CopyInfoNotNil \cup CopyInfoClosed, i)
                 ELSE r1
         [] h[instr].kind \in {"SliceToArrayPointer", "SliceToArray"} ->
              Renamed(r0, u, x[1], instr, CopyInfoUnspecified, i)
         [] h[instr].kind = "Slice" ->
              LET r1 == IF x[2] = 0 /\ x[3] = 0 /\ x[4] = 0
                        THEN RenamedIf(~hasInfo(h, x[1], CopyInfoNotNil),
                                       r0, u, x[1], instr, CopyInfoUnspecified, i)
                        ELSE Renamed(r0, u, x[1], instr, CopyInfoUnspecified, i)
                  r2 == RenamedIf(x[2] # 0, r1, u, x[2], instr, CopyInfoNotNegative, i)
                  r3 == RenamedIf(x[3] # 0, r2, u, x[3], instr, CopyInfoNotNegative, i)
              IN RenamedIf(x[4] # 0, r3, u, x[4], instr, CopyInfoNotNegative, i)
         [] h[instr].kind = "StringLookup" ->
              Renamed(Renamed(r0, u, x[1], instr, CopyInfoUnspecified, i),
                      u, x[2], instr, CopyInfoNotNegative, i)
         [] OTHER -> r0

\* the loop over u.Instrs from index i on
RECURSIVE SplitInstrs(_, _, _)
SplitInstrs(s, u, i) ==
    LET is == s.f.Blocks[u].Instrs IN
    IF i >= Len(is) THEN s
    ELSE IF is[i + 1] = 0 THEN SplitInstrs(s, u, i + 1)
    ELSE LET r == Refined(ReplaceArgs(s, is[i + 1], 1), u, is[i + 1], i) IN
         SplitInstrs(r.s, u, i + r.off + 1)
RECURSIVE splitOnNewInformation(_, _)
RECURSIVE SplitChildren(_, _, _)
SplitChildren(s, children, k) ==
    IF k > Len(children) THEN s
    ELSE SplitChildren(splitOnNewInformation(s, children[k]), children, k + 1)
splitOnNewInformation(s, u) ==
    LET pushed == [s EXCEPT !.renaming = StackPush(@)]
        done == SplitChildren(SplitInstrs(pushed, u, 0), s.f.children[u], 1)
    IN [done EXCEPT !.renaming = StackPop(@)]

\* the instructions the subpass is tried on: P is a parameter that may be
\* nil, A an Alloc, N an integer parameter, R the value of the first
\* instruction of the body; flag says that a call is an invoke
RefineOps ==
    {[kind |-> k, ops |-> <<x>>, flag |-> FALSE] :
        k \in {"FieldAddr", "Load"}, x \in {"P", "A", "R"}}
    \cup {[kind |-> k, ops |-> <<"P">>, flag |-> FALSE] :
             k \in {"TypeAssert", "Recv", "SliceToArray", "SliceToArrayPointer"}}
    \cup {[kind |-> k, ops |-> <<"P", "N">>, flag |-> FALSE] : k \in {"Store", "Send", "StringLookup"}}
    \cup {[kind |-> "MapUpdate", ops |-> <<"P", "N", "N">>, flag |-> FALSE]}
    \cup {[kind |-> "IndexAddr", ops |-> <<x, "N">>, flag |-> FALSE] : x \in {"P", "A"}}
    \cup {[kind |-> "Slice", ops |-> <<x, low, "nil", max>>, flag |-> FALSE] :
             x \in {"P", "A"}, low \in {"nil", "N"}, max \in {"nil", "N"}}
    \cup {[kind |-> "Call", ops |-> <<"P">>, flag |-> inv] : inv \in BOOLEAN}
    \cup {[kind |-> "Call", ops |-> <<b, "P">>, flag |-> FALSE] : b \in {"close", "len"}}
MaxRefined == 2
RefineBodies ==
    {p \in SeqsUpTo({0, 1} \X RefineOps, MaxRefined) :
        \A i \in 1..(Len(p) - 1) : p[i][1] <= p[i + 1][1]}
RECURSIVE EmitRefineBody(_, _, _, _)
EmitRefineBody(f, p, val, i) ==
    IF i > Len(p) THEN f
    ELSE LET o == p[i][2]
             first == IF i = 1 THEN val["P"] ELSE 6
         IN EmitRefineBody(Emit(f, p[i][1], o.kind,
                                [k \in 1..Len(o.ops) |-> IF o.ops[k] = "R" THEN first ELSE val[o.ops[k]]],
                                o.flag),
                           p, val, i + 1)
\* the values P, A, N and the builtins come first in the heap
BuildRefined(p) ==
    LET f1 == NewValue(NewValue(Emit(NewValue(EmptyFunction(Straight), "Parameter"), 0, "Alloc", <<>>, FALSE),
                                "Parameter"), "Builtin")
        f2 == NewValue(f1, "Builtin")
        f3 == [f2 EXCEPT !.heap[4] = [name |-> "close"] @@ @, !.heap[5] = [name |-> "len"] @@ @]
        val == [n \in {"P", "A", "N", "close", "len", "nil"} |->
                   CASE n = "P" -> 1 [] n = "A" -> 2 [] n = "N" -> 3 [] n = "close" -> 4
                     [] n = "len" -> 5 [] OTHER -> 0]
    IN EmitRefineBody(f3, p, val, 1)
RefineFunctions == {BuildRefined(p) : p \in RefineBodies}
RefineInit ==
    /\ function \in RefineFunctions
    /\ lpc = "idle"
    /\ lw = Idle
    /\ runs = 0
    /\ fn0 = function
    /\ rets = <<>>
    /\ clock = 0
\* the subpass runs over the dominator tree from the entry block
Refine ==
    /\ lpc = "idle"
    /\ function' = splitOnNewInformation([f |-> function, renaming |-> <<>>], 0).f
    /\ lpc' = "refined"
    /\ clock' = clock + 1
    /\ UNCHANGED <<lw, runs, fn0, rets, mvars, gotypesalias, hvars>>
RefineNext == Refine


vars == <<mvars, gotypesalias, lvars, hvars>>
\* the data structures of lift are not exercised on their own
NoIntervals == ivl = [at |-> "none"]
NoBlockSet == bset = [at |-> "none"]

\* The matcher on its own: patterns and nodes are chosen, matched, matched
\* again on the same Matcher, and the Matcher is replaced; lift is not called.
NoLift ==
    /\ function = EmptyFunction(Straight)
    /\ lpc = "idle"
    /\ lw = Idle
    /\ runs = 0
    /\ fn0 = function
    /\ rets = <<>>
    /\ clock = 0
InitMatch == MInit /\ NoLift /\ NoIntervals /\ NoBlockSet
SpecMatch == InitMatch /\ [][MNext]_vars

\* lift on its own: it is called on a function, and called again when it has
\* returned; the matcher is not used.
InitLift == MInit /\ gotypesalias = TRUE /\ LInit /\ NoIntervals /\ NoBlockSet
SpecLift == InitLift /\ [][LNext]_vars


\* the interval encoding on its own: an interval is drawn, encoded as
\* transitiveClosure does, and read as has does
InitIntervals == MInit /\ gotypesalias = TRUE /\ NoLift /\ IvlInit /\ NoBlockSet
SpecIntervals == InitIntervals /\ [][IvlNext]_vars

\* a BlockSet on its own, under Add, Take, Set and Clear in any order
InitBlockSet == MInit /\ gotypesalias = TRUE /\ NoLift /\ NoIntervals /\ BsInit
SpecBlockSet == InitBlockSet /\ [][BsNext]_vars

\* lift with every round of the placement loop and of the simplification
\* loop as a step of its own; a call that has begun goes on until it returns
InitRounds == MInit /\ gotypesalias = TRUE /\ RoundsInit /\ NoIntervals /\ NoBlockSet
\* lift has a step to take: it has not panicked, and it is called again
\* only MaxRuns times
Running == lpc # "panic" /\ (lpc \in {"idle", "done"} => runs < MaxRuns)
\* the clock moves with every step of lift and with nothing else, so that a
\* step of the clock is a step of lift
Tick == Running /\ clock' = clock + 1
SpecRounds == InitRounds /\ [][RoundsNext]_vars /\ WF_clock(Tick)

\* the information-refinement subpass on its own, once over a function
InitRefine == MInit /\ gotypesalias = TRUE /\ RefineInit /\ NoIntervals /\ NoBlockSet
SpecRefine == InitRefine /\ [][RefineNext]_vars
(***************************************************************************)
(* Properties of the matcher                                               *)
(***************************************************************************)
\* C1: every evaluation of Not{q} that returns, successfully or not, leaves
\* the bindings map exactly as it was when Not was entered.
NotLeavesBindings == \A e \in notLog : e.err = "none" => e.after = e.State

\* the alternatives of an Or evaluated one by one from the bindings the Or
\* was entered with
AltFrom(e, i) ==
    match(push([State |-> e.State, setBindings |-> <<>>, bindingsMapping |-> pat.Bindings,
                notLog |-> {}, orLog |-> {}, recallLog |-> {}, bindLog |-> {},
                popLog |-> {}, named |-> <<>>]),
          e.or.Nodes[i], e.node)
OrFirstMatch(e) ==
    LET wins == {i \in 1..Len(e.or.Nodes) : AltFrom(e, i).ok}
        first == CHOOSE i \in wins : \A j \in wins : i <= j
    IN IF wins = {} THEN ~e.ok /\ e.after = e.State
       ELSE e.ok /\ e.val = AltFrom(e, first).val /\ e.after = AltFrom(e, first).m.State
\* C2: every evaluation of an Or that returns gives the result of the first
\* alternative that matches and the bindings of that alternative alone; when
\* none matches the bindings map is as before the Or.
OrIsFirstAlternative == \A e \in orLog : e.err = "none" => OrFirstMatch(e)

\* structural equality of two values: transparent wrappers are looked
\* through, a sequence of one element stands for the element, an object
\* equals the identifier that denotes it
RECURSIVE Norm(_)
Norm(v) ==
    CASE v.t = "node" /\ v.isnil -> GoNil
      [] v.t = "node" /\ v.k \in Transparent -> Norm(Inner(v))
      [] v.t = "node" -> AstNode(v.k, [n \in DOMAIN v.f |-> Norm(v.f[n])])
      [] v.t = "slice" /\ Len(v.e) = 1 -> Norm(v.e[1])
      [] v.t = "slice" -> SliceV(v.et, [i \in 1..Len(v.e) |-> Norm(v.e[i])])
      [] OTHER -> v
StructEq(a, b) ==
    IF a.t = "obj" THEN Norm(b).t = "node" /\ Norm(b).k = "Ident" /\ ObjectOf(Norm(b)) = a
    ELSE Norm(a) = Norm(b)
\* C3: a recall of a bound name succeeds exactly when the node is
\* structurally equal to the bound value, whatever kind of value is bound.
RecallIsStructuralEquality ==
    \A e \in recallLog : e.err = "none" => (e.ok <=> StructEq(e.bound, e.node))

(***************************************************************************)
(* Properties of lift                                                      *)
(***************************************************************************)
\* the instructions that stand in some block of f
InBlocks(f) == UNION {SeqToSet(f.Blocks[b].Instrs) \ {0} : b \in DOMAIN f.Blocks}
HasKind(f, kind) == \E i \in InBlocks(f) : f.heap[i].kind = kind
\* f has the instruction sequences, the operands and the Locals of g
SameCode(f, g) ==
    /\ \A b \in DOMAIN f.Blocks : f.Blocks[b].Instrs = g.Blocks[b].Instrs
    /\ \A i \in InBlocks(g) : f.heap[i].ops = g.heap[i].ops
    /\ f.Locals = g.Locals
\* the instructions of block b of g, without the RunDefers if g has no Defer
WithoutRunDefers(g, b) ==
    SelectSeq(g.Blocks[b].Instrs, LAMBDA i : HasKind(g, "Defer") \/ g.heap[i].kind # "RunDefers")

\* C4 as stated: on a function without Alloc, lift returns false and leaves
\* every block's instruction sequence and the Locals as they were.
NoAllocUnchanged ==
    (lpc = "done" /\ ~HasKind(fn0, "Alloc")) =>
        (~rets[Len(rets)] /\ SameCode(function, fn0))
\* C4: on a function without Alloc, lift returns false and changes nothing
\* but this: the RunDefers are taken out when the function has no Defer.
NoAllocOnlyRunDefersGo ==
    (lpc = "done" /\ ~HasKind(fn0, "Alloc")) =>
        /\ ~rets[Len(rets)]
        /\ \A b \in DOMAIN function.Blocks : function.Blocks[b].Instrs = WithoutRunDefers(fn0, b)
        /\ \A i \in InBlocks(fn0) : function.heap[i].ops = fn0.heap[i].ops
        /\ function.Locals = fn0.Locals
\* lift has returned from a function without Alloc and Defer whose RunDefers
\* it took out
NoAllocRunDefersGone ==
    /\ lpc = "done"
    /\ ~HasKind(fn0, "Alloc")
    /\ HasKind(fn0, "RunDefers")
    /\ ~HasKind(fn0, "Defer")
    /\ ~HasKind(function, "RunDefers")

\* C5 as stated: a second run of lift directly after a first finds no cell
\* liftable, changes no instruction and returns false.
SecondRunNoOp ==
    (lpc = "done" /\ runs = 2) =>
        (lw.numAllocs = 0 /\ ~rets[2] /\ SameCode(function, fn0))
\* C5: a run of lift directly after a run that returned false finds no cell
\* liftable, changes no instruction and no Locals, and returns false.
RunAfterFalseNoOp ==
    (lpc = "done" /\ runs >= 2 /\ ~rets[runs - 1]) =>
        (lw.numAllocs = 0 /\ ~rets[runs] /\ SameCode(function, fn0))
\* the second run has returned, after a first run that found the cells of a
\* function that loads from one all unliftable
SecondRunAfterFalse ==
    /\ lpc = "done"
    /\ runs = 2
    /\ ~rets[1]
    /\ Len(fn0.Locals) >= 1
    /\ HasKind(fn0, "Load")

Lifted(f, v) == v # 0 /\ f.heap[v].kind = "Alloc" /\ f.heap[v].index >= 0
\* C6: when lift has returned, no Load and no Store left in a block has a
\* lifted cell (index >= 0) as its address, the pairs that splitting
\* inserted included.
NoAccessToLifted ==
    lpc = "done" =>
        \A i \in InBlocks(function) :
            function.heap[i].kind \in {"Load", "Store"} => ~Lifted(function, function.heap[i].ops[1])
\* lift has returned after it split a cell, and the function had a Load or
\* Store of a cell that was lifted
SplitAndLifted ==
    /\ lpc = "done"
    /\ \E b \in DOMAIN lw.work : DOMAIN lw.work[b].insertInstructions # {}
    /\ \E i \in InBlocks(fn0) :
          /\ fn0.heap[i].kind \in {"Load", "Store"}
          /\ Lifted(function, fn0.heap[i].ops[1])

\* the phis and the sigmas lift placed in this run, each with the block it
\* was placed for (a sigma: the block at the end of its edge)
PlacedPhis ==
    UNION {{[block |-> b, node |-> lw.newPhis[b][k].phi] : k \in 1..Len(lw.newPhis[b])} :
              b \in DOMAIN lw.newPhis}
PlacedSigmas ==
    UNION {UNION {{[block |-> function.Blocks[b].Succs[i], node |-> lw.newSigmas[b][k].sigmas[i]] :
                      i \in {x \in 1..Len(lw.newSigmas[b][k].sigmas) : lw.newSigmas[b][k].sigmas[x] # 0}} :
                     k \in 1..Len(lw.newSigmas[b])} :
              b \in DOMAIN lw.newSigmas}
\* C7: when lift is over, every phi it placed and did not drop has as many
\* edges as its block has predecessors, and none of the edges is null; a
\* block may occur twice among the predecessors.
PhiEdgesComplete ==
    lpc \in {"done", "panic"} =>
        \A p \in PlacedPhis :
            function.heap[p.node].block # -1 =>
                /\ Len(function.heap[p.node].ops) = Len(function.Blocks[p.block].Preds)
                /\ \A i \in 1..Len(function.heap[p.node].ops) : function.heap[p.node].ops[i] # 0

\* C8: when lift has returned, no block has an empty slot among its
\* instructions and no instruction stands at two positions of a block; a
\* block may be reached over two successor edges of one predecessor.
EachInstructionOnce ==
    lpc = "done" =>
        \A b \in DOMAIN function.Blocks :
            /\ 0 \notin SeqToSet(function.Blocks[b].Instrs)
            /\ \A i, j \in 1..Len(function.Blocks[b].Instrs) :
                  function.Blocks[b].Instrs[i] = function.Blocks[b].Instrs[j] => i = j

Nodes(f) == {v \in DOMAIN f.heap : f.heap[v].kind \in {"Phi", "Sigma"}}
\* C9: when lift has returned, every operand of a phi or sigma that stands
\* in a block has that node among its referrers, and no referrer list holds
\* a phi or sigma that stands in no block.
ReferrersConsistent ==
    lpc = "done" =>
        /\ \A n \in Nodes(function) \cap InBlocks(function) :
              \A i \in 1..Len(function.heap[n].ops) :
                 function.heap[n].ops[i] # 0 =>
                    n \in SeqToSet(function.heap[function.heap[n].ops[i]].refs)
        /\ \A v \in DOMAIN function.heap :
              \A n \in SeqToSet(function.heap[v].refs) :
                 n \in Nodes(function) => n \in InBlocks(function)
\* lift has returned having kept a phi and a sigma in blocks and having
\* dropped a phi that had edges
KeptAndDropped ==
    /\ lpc = "done"
    /\ \E p \in PlacedPhis : p.node \in InBlocks(function)
    /\ \E p \in PlacedSigmas : p.node \in InBlocks(function)
    /\ \E p \in PlacedPhis : function.heap[p.node].block = -1

\* C10: with alias types materialised, a Symbol naming any member of the
\* chain A1 = A2 = ... = An = T, or T itself, matches an expression that
\* resolves to A1.
SymbolMatchesWholeChain ==
    (/\ mpc = "matched"
     /\ gotypesalias
     /\ node = Ident("A1")
     /\ pat.Root \in {Symbol(String(AliasName("A", i))) : i \in 1..MaxAliasChain}
                     \cup {Symbol(String("pkg.T"))})
    => ret

RECURSIVE Handed(_)
Handed(v) ==
    IF v.t = "node" /\ v.k \in Transparent
    THEN IF v.isnil THEN GoNil ELSE Handed(Inner(v))
    ELSE v
\* C13 as stated: the empty List matches a value exactly when the value is
\* a non-null sequence of length 0.
EmptyListNotNull ==
    (mpc = "matched" /\ pat.Root = EmptyList) =>
        (ret <=> (Handed(node).t = "slice" /\ ~Handed(node).isnil /\ Len(Handed(node).e) = 0))
\* C13: the empty List matches a value exactly when the value is a sequence
\* of length 0, a null slice included; it does not match an untyped nil, a
\* nil block or a nil field list.
EmptyListIsLengthZero ==
    (mpc = "matched" /\ pat.Root = EmptyList) =>
        (ret <=> (Handed(node).t = "slice" /\ Len(Handed(node).e) = 0))
\* the empty List has matched the block of an empty else, whose List is nil
EmptyElseMatched ==
    /\ mpc = "matched"
    /\ pat.Root = EmptyList
    /\ node = AstNode("BlockStmt", [List |-> NilSlice("Stmt")])
    /\ ret

\* C14: a Binding with a sub-pattern that is evaluated while its name is
\* bound panics and stores nothing, and no Binding stores a value for a
\* name that has one: a name gets at most one value in one Match.
BindingNeverOverwrites ==
    \A e \in bindLog :
        /\ (e.sub /\ e.entry # Unbound) => (e.err = "binding already created" /\ ~e.stored)
        /\ e.stored => e.before = Unbound

\* the RunDefers of block b of f, in their order
RunDefersOf(f, b) == SelectSeq(f.Blocks[b].Instrs, LAMBDA i : i # 0 /\ f.heap[i].kind = "RunDefers")
\* C15: when lift has returned from a function without Defer, no block
\* holds a RunDefers, whether or not a cell was lifted; from a function with
\* a Defer, every block holds the RunDefers it held.
RunDefersElided ==
    lpc = "done" =>
        IF HasKind(fn0, "Defer")
        THEN \A b \in DOMAIN function.Blocks : RunDefersOf(function, b) = RunDefersOf(fn0, b)
        ELSE ~HasKind(function, "RunDefers")
\* lift has lifted a cell of a function with a RunDefers and no Defer
LiftedAndRunDefersGone ==
    /\ lpc = "done"
    /\ rets[Len(rets)]
    /\ HasKind(fn0, "RunDefers")
    /\ ~HasKind(fn0, "Defer")
    /\ ~HasKind(function, "RunDefers")

\* C16: when lift has returned, Locals holds the cells it held before that
\* were not lifted, in the order they had: those cells have index -1 and
\* their Alloc still stands in a block; every cell that is gone from Locals
\* was lifted (index >= 0).
LocalsAreTheUnlifted ==
    lpc = "done" =>
        /\ function.Locals = SelectSeq(fn0.Locals, LAMBDA l : l \in InBlocks(function))
        /\ \A i \in 1..Len(function.Locals) : function.heap[function.Locals[i]].index = -1
        /\ \A l \in SeqToSet(fn0.Locals) \ SeqToSet(function.Locals) : function.heap[l].index >= 0
\* lift has returned having lifted one local and left another
OneLocalLiftedOneLeft ==
    /\ lpc = "done"
    /\ Len(function.Locals) >= 1
    /\ Len(fn0.Locals) > Len(function.Locals)

\* C17: when lift has returned, a sigma that stands in a block B stands
\* before every phi and every ordinary instruction of B, B is a successor of
\* the sigma's From block, and the From block is a predecessor of B.
SigmasAtEntry ==
    lpc = "done" =>
        \A b \in DOMAIN function.Blocks :
            LET instrs == function.Blocks[b].Instrs IN
            \A i \in 1..Len(instrs) :
                (instrs[i] # 0 /\ function.heap[instrs[i]].kind = "Sigma") =>
                    /\ \A j \in 1..(i - 1) : instrs[j] # 0 /\ function.heap[instrs[j]].kind = "Sigma"
                    /\ b \in SeqToSet(function.Blocks[function.heap[instrs[i]].From].Succs)
                    /\ function.heap[instrs[i]].From \in SeqToSet(function.Blocks[b].Preds)

\* instruction i has cell c among its operands
UsesCell(f, i, c) == i # 0 /\ c \in SeqToSet(f.heap[i].ops)
\* a use of c that is no Load, no DebugRef and no Store to c
IsUnliftableUse(f, i, c) ==
    /\ UsesCell(f, i, c)
    /\ f.heap[i].kind \notin {"Load", "DebugRef"}
    /\ ~(f.heap[i].kind = "Store" /\ f.heap[i].ops[1] = c /\ f.heap[i].ops[2] # c)
\* the positions in block b of the unliftable uses of c
UnliftableAt(f, b, c) ==
    {i \in 1..Len(f.Blocks[b].Instrs) : IsUnliftableUse(f, f.Blocks[b].Instrs[i], c)}
\* b is reached over at least one edge from a block of from
ReachedFrom(f, b, from) == \E a \in from : \E s \in SeqToSet(f.Blocks[a].Succs) : b \in walk(f, s)
UnliftableBlocks(f, c) == {a \in DOMAIN f.Blocks : UnliftableAt(f, a, c) # {}}
\* a split of c in block b whose unliftable uses are no phis and no sigmas
InBlockSplit(b, c) ==
    /\ UnliftableAt(fn0, b, c) # {}
    /\ \A i \in UnliftableAt(fn0, b, c) : fn0.heap[fn0.Blocks[b].Instrs[i]].kind \notin {"Phi", "Sigma"}
\* tmp = Load(c); Store(c2, tmp), made by this run, stand immediately before
\* instruction key in block b
PairBefore(b, key, c, c2) ==
    LET new == function.Blocks[b].Instrs
        k == IndexOf(new, key) + 1
    IN /\ k >= 3
       /\ new[k - 2] > Len(fn0.heap) /\ new[k - 1] > Len(fn0.heap)
       /\ function.heap[new[k - 2]].kind = "Load" /\ function.heap[new[k - 2]].ops = <<c>>
       /\ function.heap[new[k - 1]].kind = "Store" /\ function.heap[new[k - 1]].ops = <<c2, new[k - 2]>>
\* the instructions block b had from position at on name c2 where they
\* named c, the ones before it are as they were
RenamedFrom(b, at, c, c2) ==
    LET old == fn0.Blocks[b].Instrs IN
    \A j \in 1..Len(old) :
        LET was == fn0.heap[old[j]].ops
            is == function.heap[old[j]].ops
        IN old[j] # 0 =>
            /\ Len(is) = Len(was)
            /\ \A n \in 1..Len(was) :
                   was[n] = c => is[n] = (IF j >= at THEN c2 ELSE c)
\* the position the pair of cell c goes to in block b: after the last Load
\* of c or Store to c that precedes the first unliftable use, and at the
\* first instruction that is no phi and no sigma if there is none
BoundaryAt(b, c) ==
    LET old == fn0.Blocks[b].Instrs
        firstU == Min(UnliftableAt(fn0, b, c))
        L == {i \in 1..(firstU - 1) :
                 UsesCell(fn0, old[i], c) /\ fn0.heap[old[i]].kind \in {"Load", "Store"}}
    IN IF L = {} THEN Min({i \in 1..Len(old) : fn0.heap[old[i]].kind \notin {"Phi", "Sigma"}})
       ELSE Max(L) + 1

MaxPathLen == 6
\* the paths from the entry block of f with at most n blocks
RECURSIVE PathsFrom(_, _)
PathsFrom(f, n) ==
    IF n <= 1 THEN {<<0>>}
    ELSE LET P == PathsFrom(f, n - 1) IN
         P \cup UNION {{Append(p, s) : s \in SeqToSet(f.Blocks[p[Len(p)]].Succs)} : p \in P}
\* The value v stands for when control has come along path p to its k-th
\* block: a sigma is its operand at the end of its From block when its
\* block was last entered from there, a phi is the operand for the edge its
\* block was last entered over, read when the sigmas of that entry are set
\* and the phis are not (entering says so), anything else is itself; -1
\* where there is none.
RECURSIVE ValueOn(_, _, _, _)
ValueOn(v, p, k, entering) ==
    IF v = 0 THEN -1
    ELSE IF function.heap[v].kind \notin {"Phi", "Sigma"} THEN v
    ELSE LET h == function.heap[v]
             last == IF entering /\ h.kind = "Phi" THEN k - 1 ELSE k
             J == {j \in 2..last : p[j] = h.block}
         IN IF J = {} THEN -1
            ELSE LET j == Max(J)
                     i == IndexOf(function.Blocks[h.block].Preds, p[j - 1])
                 IN IF h.kind = "Sigma"
                    THEN IF h.From = p[j - 1] THEN ValueOn(h.ops[1], p, j - 1, FALSE) ELSE -1
                    ELSE IF i < 0 \/ i >= Len(h.ops) THEN -1
                    ELSE ValueOn(h.ops[i + 1], p, j, TRUE)
\* the instructions run along path p before instruction l of its last block
RECURSIVE RunBefore(_, _, _)
RunBefore(p, k, l) ==
    LET is == fn0.Blocks[p[k]].Instrs IN
    IF k = Len(p) THEN SubSeq(is, 1, IndexOf(is, l))
    ELSE is \o RunBefore(p, k + 1, l)
\* what cell c holds when Load l is run at the end of path p: the value of
\* the last Store to c, the zero constant if there was none
HeldAt(c, p, l) ==
    LET run == RunBefore(p, 1, l)
        S == {i \in 1..Len(run) : run[i] # 0 /\ fn0.heap[run[i]].kind = "Store"
                                  /\ fn0.heap[run[i]].ops[1] = c}
    IN IF S = {} THEN function.zero ELSE fn0.heap[run[Max(S)]].ops[2]
\* the Loads of cells lifted by this run
RemovedLoads ==
    {l \in InBlocks(fn0) \ InBlocks(function) :
        /\ fn0.heap[l].kind = "Load"
        /\ fn0.heap[l].ops[1] \in InBlocks(fn0)
        /\ Lifted(function, fn0.heap[l].ops[1])}
\* the users of Load l when its cell is renamed: the instructions that had l
\* as operand when the run began and stand in a block, but for a Defer
\* whose defer stack operand the run has cleared
UsersOf(l) ==
    {u \in SeqToSet(fn0.heap[l].refs) \cap InBlocks(function) :
        ~(lw.eliminateDeferStack /\ fn0.heap[u].kind = "Defer")}

Cells(f) == {c \in InBlocks(f) : f.heap[c].kind = "Alloc"}
\* r is a Store to c, a Load of c or a DebugRef of c
IsLiftableUse(f, r, c) == UsesCell(f, r, c) /\ ~IsUnliftableUse(f, r, c)
\* r stands before the first unliftable use of c in its block, in a block
\* that no block with an unliftable use of c reaches
BeforeUnliftable(f, r, c) ==
    LET b == f.heap[r].block IN
    /\ \A i \in UnliftableAt(f, b, c) : IndexOf(f.Blocks[b].Instrs, r) + 1 < i
    /\ ~ReachedFrom(f, b, UnliftableBlocks(f, c))
\* what the classification has done with cell c
Rejected(c) == function.heap[c].index = -1
NothingRecorded(c) ==
    /\ c \notin DOMAIN lw.work[fn0.heap[c].block].insertInstructions
    /\ \A b \in DOMAIN lw.work : \A k \in 1..Len(lw.work[b].renameAllocs) :
           lw.work[b].renameAllocs[k].from # c
Accepted(c) == function.heap[c].index >= 0 /\ NothingRecorded(c)
\* a new heap cell is to be inserted before c and some block renames c to it
Split(c) ==
    /\ function.heap[c].index >= 0
    /\ c \in DOMAIN lw.work[fn0.heap[c].block].insertInstructions
    /\ LET c2 == lw.work[fn0.heap[c].block].insertInstructions[c][1] IN
       /\ c2 > Len(fn0.heap) /\ function.heap[c2].kind = "Alloc" /\ function.heap[c2].flag
       /\ \E b \in DOMAIN lw.work : \E k \in 1..Len(lw.work[b].renameAllocs) :
              lw.work[b].renameAllocs[k] \in
                  {[from |-> c, to |-> c2, startingAt |-> n] : n \in 0..Len(fn0.Blocks[b].Instrs)}
\* the decision table, for the uses of c that count
Decided(c, loads, others, unliftable) ==
    IF fn0.hasDefer /\ c \in fn0.results THEN Rejected(c)
    ELSE IF loads = {} /\ others = {} THEN Rejected(c)
    ELSE IF unliftable = {} THEN Accepted(c)
    ELSE IF loads = {} THEN Rejected(c)
    ELSE Split(c)

\* C20 as stated: when lift has classified the cells, each cell is rejected,
\* accepted with nothing recorded, or split as the decision table says,
\* every Load of the cell, Store to it and DebugRef of it counting as a
\* liftable use wherever it stands; a result cell of a function with defer
\* is rejected.
DecisionTableByKind ==
    lpc = "classified" =>
        \A c \in Cells(fn0) :
            LET uses == SeqToSet(fn0.heap[c].refs)
                liftable0 == {r \in uses : IsLiftableUse(fn0, r, c)}
            IN Decided(c, {r \in liftable0 : fn0.heap[r].kind = "Load"},
                       {r \in liftable0 : fn0.heap[r].kind # "Load"},
                       {r \in uses : IsUnliftableUse(fn0, r, c)})

\* C20: the same, where a Load, a Store to the cell or a DebugRef counts as
\* a liftable use only if it stands before the first unliftable use of the
\* cell in its block and no block with an unliftable use reaches its block.
DecisionTableByPosition ==
    lpc = "classified" =>
        \A c \in Cells(fn0) :
            LET uses == SeqToSet(fn0.heap[c].refs)
                liftable0 == {r \in uses : IsLiftableUse(fn0, r, c) /\ BeforeUnliftable(fn0, r, c)}
            IN Decided(c, {r \in liftable0 : fn0.heap[r].kind = "Load"},
                       {r \in liftable0 : fn0.heap[r].kind # "Load"},
                       {r \in uses : IsUnliftableUse(fn0, r, c)})
\* a cell with a Load and an unliftable use is rejected, the Load coming
\* after the unliftable use, while another cell is split or accepted
RejectedWithLoadBehind ==
    /\ lpc = "classified"
    /\ \E c \in Cells(fn0) :
           /\ Rejected(c) /\ ~(fn0.hasDefer /\ c \in fn0.results)
           /\ \E r \in SeqToSet(fn0.heap[c].refs) : fn0.heap[r].kind = "Load"
           /\ \A r \in SeqToSet(fn0.heap[c].refs) :
                  IsLiftableUse(fn0, r, c) => ~BeforeUnliftable(fn0, r, c)
(***************************************************************************)
(* Properties of the analyses lift is built from                           *)
(***************************************************************************)
NoDuplicates(s) == \A i, j \in 1..Len(s) : s[i] = s[j] => i = j

\* C21: when lift has classified the cells, for every cell whose blocks were
\* searched, every block reached over one or more edges from a block with
\* an unliftable use is unliftable with storeInPreds set, firstUnliftable 0
\* and no liftable use counted; the unliftable blocks are closed under
\* successors; and the search has overwritten exactly the reached blocks,
\* each once.
FloodFillClosed ==
    lpc = "classified" =>
        \A c \in DOMAIN lw.fills :
            LET fill == lw.fills[c][1]
                from == UnliftableBlocks(fn0, c)
                reached == {b \in DOMAIN fn0.Blocks : ReachedFrom(fn0, b, from)}
            IN /\ \A b \in reached :
                      /\ fill.blocks[b].isUnliftable /\ fill.blocks[b].storeInPreds
                      /\ fill.blocks[b].firstUnliftable = 0
                      /\ ~fill.blocks[b].hasLiftableLoad /\ ~fill.blocks[b].hasLiftableOther
               /\ \A b \in DOMAIN fn0.Blocks :
                      fill.blocks[b].isUnliftable =>
                          \A s \in SeqToSet(fn0.Blocks[b].Succs) : fill.blocks[s].isUnliftable
               /\ SeqToSet(fill.visited) = reached
               /\ NoDuplicates(fill.visited)
\* the search has gone round a cycle: a block with an unliftable use is
\* reached from itself, and more than two blocks are marked
FillRoundACycle ==
    /\ lpc = "classified"
    /\ \E c \in DOMAIN lw.fills :
           /\ UnliftableBlocks(fn0, c) \cap SeqToSet(lw.fills[c][1].visited) # {}
           /\ Len(lw.fills[c][1].visited) >= 3

\* the boundary pairs of cell c recorded for the end of block p: the Loads
\* of c to be put before p's last instruction
PairsAtEnd(c, p) ==
    LET is == fn0.Blocks[p].Instrs
        insert == lw.work[p].insertInstructions
        add == IF is[Len(is)] \in DOMAIN insert THEN insert[is[Len(is)]] ELSE <<>>
    IN {i \in 1..(Len(add) - 1) :
           /\ function.heap[add[i]].kind = "Load" /\ function.heap[add[i]].ops = <<c>>
           /\ function.heap[add[i + 1]].kind = "Store" /\ function.heap[add[i + 1]].ops[2] = add[i]}
\* C22: when lift has classified the cells, for every cell c and block p at
\* most one boundary pair of c is recorded for the end of p, and if there is
\* one then p holds no unliftable use of c, is reached from no block that
\* holds one, and is dominated by the block of c.
OnePairPerPredecessor ==
    lpc = "classified" =>
        \A c \in Cells(fn0) : \A p \in DOMAIN fn0.Blocks :
            /\ Cardinality(PairsAtEnd(c, p)) <= 1
            /\ PairsAtEnd(c, p) # {} =>
                   /\ p \notin UnliftableBlocks(fn0, c)
                   /\ ~ReachedFrom(fn0, p, UnliftableBlocks(fn0, c))
                   /\ Dominates(fn0, fn0.heap[c].block, p)
\* a block has its one pair while two of its successor edges lead to
\* unliftable blocks that want their pair in their predecessors
PairForTwoSuccessors ==
    /\ lpc = "classified"
    /\ \E c \in Cells(fn0) : \E p \in DOMAIN fn0.Blocks :
           /\ Cardinality(PairsAtEnd(c, p)) = 1
           /\ \E i, j \in 1..Len(fn0.Blocks[p].Succs) :
                  /\ i # j
                  /\ ReachedFrom(fn0, fn0.Blocks[p].Succs[i], UnliftableBlocks(fn0, c))
                  /\ ReachedFrom(fn0, fn0.Blocks[p].Succs[j], UnliftableBlocks(fn0, c))

\* the dominance frontier of block n: the blocks with a predecessor that n
\* dominates, which n does not strictly dominate
FrontierOf(f, n) ==
    {y \in DOMAIN f.Blocks :
        /\ \E p \in SeqToSet(f.Blocks[y].Preds) : Dominates(f, n, p)
        /\ ~(n # y /\ Dominates(f, n, y))}
\* the iterated dominance frontier of the blocks X
RECURSIVE IteratedFrontier(_, _, _)
IteratedFrontier(f, X, S) ==
    LET next == UNION {FrontierOf(f, n) : n \in X \cup S} IN
    IF next = S THEN S ELSE IteratedFrontier(f, X, next)
\* the blocks of the Stores to c, and the block of c
StoreBlocks(f, c) ==
    {f.heap[r].block : r \in {x \in SeqToSet(f.heap[c].refs) : f.heap[x].kind = "Store"}}
    \cup {f.heap[c].block}
\* the index, if one was built, says that y reaches the block of a Load of c
LoadReached(f, c, y) ==
    \/ lw.closure.nil
    \/ \E r \in SeqToSet(f.heap[c].refs) :
          f.heap[r].kind = "Load" /\ has(f, lw.closure, y, f.heap[r].block)
PhisOf(c, y) == {k \in 1..Len(lw.newPhis[y]) : lw.newPhis[y][k].alloc = c}
\* the successors of the blocks at whose end lift placed sigmas for c
SigmaSuccessors(f, c) ==
    UNION {SeqToSet(f.Blocks[y].Succs) :
              y \in {b \in DOMAIN lw.newSigmas : \E k \in 1..Len(lw.newSigmas[b]) : lw.newSigmas[b][k].alloc = c}}
PhiWanted(f, c, y, defs) ==
    /\ y \in IteratedFrontier(f, defs, {})
    /\ LoadReached(f, c, y)
    /\ f.Blocks[y].Preds # <<>>
\* C23 as stated, the definition blocks of c being the blocks of its Stores
\* and its own block: refuted by a cell that is only read inside a loop,
\* where the sigma at the loop's exit edge makes a phi at the loop's head.
PhisWhereStoresMeet ==
    lpc = "placed" =>
        \A c \in {x \in Cells(function) : Lifted(function, x)} : \A y \in DOMAIN function.Blocks :
            /\ Cardinality(PhisOf(c, y)) <= 1
            /\ PhisOf(c, y) # {} <=> PhiWanted(function, c, y, StoreBlocks(function, c))
\* C23: when lift has placed the nodes, for every lifted cell c and block y
\* there is a phi of c at y exactly when y is in the iterated dominance
\* frontier of the blocks that define c (the blocks of the Stores to c, the
\* block of c, and the successors of the blocks where sigmas of c were
\* placed), the index says a Load of c is reached from y (or no index was
\* built) and y has a predecessor; no block has two phis of c.
PhisWhereDefinitionsMeet ==
    lpc = "placed" =>
        \A c \in {x \in Cells(function) : Lifted(function, x)} : \A y \in DOMAIN function.Blocks :
            /\ Cardinality(PhisOf(c, y)) <= 1
            /\ PhisOf(c, y) # {} <=>
                   PhiWanted(function, c, y, StoreBlocks(function, c) \cup SigmaSuccessors(function, c))
\* a phi of a lifted cell c was placed at a block outside the iterated
\* frontier of the Stores to c and of c's own block
PhiBehindSigma ==
    /\ lpc = "placed"
    /\ \E c \in {x \in Cells(function) : Lifted(function, x)} : \E y \in DOMAIN function.Blocks :
           /\ PhisOf(c, y) # {}
           /\ y \notin IteratedFrontier(function, StoreBlocks(function, c), {})

\* the blocks that paths of at most k successor edges lead to from block s
RECURSIVE Within(_, _, _)
Within(f, s, k) ==
    IF k = 0 THEN {s}
    ELSE LET near == Within(f, s, k - 1) IN
         near \cup UNION {SeqToSet(f.Blocks[a].Succs) : a \in near}
Reaches(f, s, v) == v \in Within(f, s, NumBlocks(f))
IndexBuilt == "closure" \in DOMAIN lw /\ ~lw.closure.nil
\* C24: whenever lift has built the reachability index, for all blocks s and
\* v, block 0 as s included: has(s, v) is true if v is reachable from s over
\* successor edges, and if it is true for a v that is not reachable from s
\* then v is block 1 or s dominates v.
HasOverApproximates ==
    IndexBuilt =>
        \A s, v \in DOMAIN fn0.Blocks :
            /\ Reaches(fn0, s, v) => has(fn0, lw.closure, s, v)
            /\ (has(fn0, lw.closure, s, v) /\ ~Reaches(fn0, s, v)) => (v = 1 \/ Dominates(fn0, s, v))
\* an index in which has is true by an interval alone, false for some pair,
\* true for block 1 though it is not reached, and true from block 0 for a
\* block other than 0 and 1
HasByInterval ==
    /\ IndexBuilt
    /\ \E s, v \in DOMAIN fn0.Blocks :
           v # 1 /\ ~Dominates(fn0, s, v) /\ has(fn0, lw.closure, s, v)
    /\ \E s, v \in DOMAIN fn0.Blocks : ~has(fn0, lw.closure, s, v)
    /\ \E s \in DOMAIN fn0.Blocks : ~Reaches(fn0, s, 1) /\ has(fn0, lw.closure, s, 1)
    /\ \E v \in DOMAIN fn0.Blocks \ {0, 1} : has(fn0, lw.closure, 0, v)

\* C25: an interval [start, end] whose start fits in numBits bits and that
\* was encoded as transitiveClosure does and read as has does gives back
\* the same start and end; its encoding is one word with the top bit 0 if
\* end - start <= 2047 and two words, the first with the top bit 1,
\* otherwise; and has finds exactly the indices from start to end in it.
IntervalRoundTrip ==
    (ivl.at \in {"encoded", "decoded", "scanned"} /\ ivl.start < 2 ^ numBits) =>
        /\ IF ivl.end - ivl.start <= 2047
           THEN Len(ivl.words) = 1 /\ ivl.words[1].flag = 0
           ELSE Len(ivl.words) = 2 /\ ivl.words[1].flag = 1
        /\ ivl.at # "encoded" => (ivl.read.start = ivl.start /\ ivl.read.end = ivl.end)
        /\ ivl.at = "scanned" => (ivl.found <=> (ivl.start <= ivl.idx /\ ivl.idx <= ivl.end))
\* an interval longer than 2047 whose start fills the 20 bits was read back
LongIntervalRead ==
    /\ ivl.at = "scanned"
    /\ ivl.start = 2 ^ numBits - 1
    /\ ivl.end - ivl.start > 2047
    /\ ivl.read.end = ivl.end

\* C26: after every sequence of Add, Take, Set and Clear on a BlockSet, its
\* count is the number of its members; Add returned true exactly if the
\* block was no member, and made it one; Take returned -1 exactly if the set
\* was empty and otherwise returned a member and removed just it, wherever
\* the cursor stood; and the Takes since the last other operation returned
\* no index twice and, once the set is empty, every member it had.
BlockSetCounts ==
    bset.at = "made" =>
        /\ bset.s.count = Cardinality(Members(bset.s))
        /\ bset.op = "Add" =>
               /\ bset.changed <=> bset.b \notin bset.before
               /\ Members(bset.s) = bset.before \cup {bset.b}
        /\ bset.op = "Take" =>
               /\ bset.i = -1 <=> bset.before = {}
               /\ bset.i # -1 => (bset.i \in bset.before /\ Members(bset.s) = bset.before \ {bset.i})
               /\ bset.i = -1 => Members(bset.s) = bset.before
        /\ bset.op = "Clear" => Members(bset.s) = {}
        /\ NoDuplicates(bset.taken)
        /\ SeqToSet(bset.taken) \cup Members(bset.s) = bset.base
        /\ SeqToSet(bset.taken) \cap Members(bset.s) = {}
\* Takes have emptied a set of three members, one of them found below the
\* cursor after the scan from the cursor upwards found none
TakenAroundCursor ==
    /\ bset.at = "made"
    /\ bset.op = "Take"
    /\ Len(bset.taken) = 3
    /\ Members(bset.s) = {}
    /\ \E k \in 1..2 : bset.taken[k + 1] < bset.taken[k]

\* the phis and sigmas that simplifyPhisAndSigmas has retired: those of
\* newPhis and newSigmas that carry its mark
Retired ==
    {v \in {e.node : e \in PlacedPhis \cup PlacedSigmas} : function.heap[v].live}
\* a round of liftAlloc's loop that reported a change: the loop goes on
ChangingPlaceRound ==
    /\ lpc = "placing" /\ lpc' = "placing"
    /\ lw'.la.alloc = lw.la.alloc /\ lw'.pending = lw.pending
ChangingSimplifyRound == lpc = "simplifying" /\ lpc' = "simplifying"
RoundsProgress ==
    /\ ChangingPlaceRound =>
          /\ Members(lw.la.Aphi) \subseteq Members(lw'.la.Aphi)
          /\ Members(lw.la.Asigma) \subseteq Members(lw'.la.Asigma)
          /\ <<Members(lw.la.Aphi), Members(lw.la.Asigma)>>
                 # <<Members(lw'.la.Aphi), Members(lw'.la.Asigma)>>
    /\ ChangingSimplifyRound => (Retired \subseteq Retired' /\ Retired # Retired')
\* C27: every call of lift comes to an end; every round of liftAlloc's loop
\* that reports a change has added a block to Aphi or to Asigma, which lose
\* no block, and the loop ends; every round of the simplification loop that
\* reports a change has retired a phi or sigma, no retired one comes back,
\* and the loop ends.
LiftTerminates ==
    /\ [][RoundsProgress]_vars
    /\ (lpc = "placing") ~> (lpc \in {"placed", "panic"})
    /\ (lpc = "simplifying") ~> (lpc \in {"simplified", "panic"})
    /\ (lpc = "classified") ~> (lpc \in {"done", "panic"})
\* lift has left both loops, the placement loop of one liftAlloc call after
\* two rounds that reported a change and the simplification loop after one
LoopsWentOn ==
    /\ lpc = "simplified"
    /\ lw.rounds.place >= 2
    /\ lw.rounds.simplify >= 1

\* v is known to have property p: a Copy on the way from v to the value it
\* stands for records p, or the value is an address that cannot be nil
RECURSIVE Known(_, _, _)
Known(heap, v, p) ==
    CASE heap[v].kind = "Copy" -> p \in heap[v].Info \/ Known(heap, heap[v].ops[1], p)
      [] heap[v].kind = "Sigma" -> Known(heap, heap[v].ops[1], p)
      [] OTHER -> p = "NotNil" /\ heap[v].kind \in {"FieldAddr", "IndexAddr", "TypeAssert", "MakeChan",
                                                    "MakeMap", "MakeSlice", "Alloc", "Global", "Builtin"}
Carries(heap, v, info) == \A p \in info : Known(heap, v, p)
Copies == {c \in DOMAIN function.heap : function.heap[c].kind = "Copy"}
\* C28 as stated: refuted by IndexAddr, whose base and index are copied
\* whatever is known of them, and by the bounds of a Slice.
NoCopyOfKnown ==
    lpc = "refined" =>
        \A c \in Copies :
            function.heap[c].Info # {} =>
                ~Carries(function.heap, function.heap[c].ops[1], function.heap[c].Info)
\* the Copies that instruction i calls for: operand and information
CopiesWanted(heap, i) ==
    LET x == heap[i].ops
        unless(v, info) == IF Carries(heap, v, info) THEN {} ELSE {<<v, info>>}
        bound(v) == IF v = 0 THEN {} ELSE {<<v, {"NotNegative"}>>}
    IN CASE heap[i].kind \in {"FieldAddr", "Load", "Store", "MapUpdate", "Recv", "Send"} ->
              unless(x[1], {"NotNil"})
         [] heap[i].kind = "TypeAssert" -> unless(x[1], {"NotNil", "SingleConcreteType"})
         [] heap[i].kind = "Call" ->
              (IF heap[i].flag THEN {} ELSE unless(x[1], {"NotNil"}))
              \cup (IF heap[x[1]].kind = "Builtin" /\ heap[x[1]].name = "close"
                    THEN unless(x[2], {"NotNil", "Closed"}) ELSE {})
         [] heap[i].kind = "IndexAddr" -> {<<x[1], {"NotNil"}>>, <<x[2], {"NotNegative"}>>}
         [] heap[i].kind = "StringLookup" -> {<<x[1], {}>>, <<x[2], {"NotNegative"}>>}
         [] heap[i].kind \in {"SliceToArray", "SliceToArrayPointer"} -> {<<x[1], {}>>}
         [] heap[i].kind = "Slice" ->
              (IF x[2] = 0 /\ x[3] = 0 /\ x[4] = 0 /\ Carries(heap, x[1], {"NotNil"})
               THEN {} ELSE {<<x[1], {}>>})
              \cup bound(x[2]) \cup bound(x[3]) \cup bound(x[4])
         [] OTHER -> {}
\* C28: when the subpass is over, an instruction that is a FieldAddr, Load,
\* Store, MapUpdate, Recv, Send, TypeAssert, a call of a value or a close
\* has a Copy of its operand exactly if the operand was not known to have
\* the property the Copy records, and a Slice without bounds one of its
\* base exactly if the base was not known to be non-nil; an IndexAddr, a
\* StringLookup, a SliceToArray, a SliceToArrayPointer and a Slice with
\* bounds have Copies of their base and of every index and bound, whatever
\* is known of them; every Copy stands behind its instruction, before the
\* next one, and there are no other Copies.
CopiesAsTheSwitchSays ==
    lpc = "refined" =>
        /\ \A i \in InBlocks(function) \ Copies :
              {<<function.heap[c].ops[1], function.heap[c].Info>> :
                  c \in {d \in Copies : function.heap[d].Why = i}}
                  = CopiesWanted(function.heap, i)
        /\ \A c \in Copies :
              LET is == function.Blocks[function.heap[c].block].Instrs
                  why == function.heap[c].Why
              IN /\ function.heap[c].block = function.heap[why].block
                 /\ IndexOf(is, why) < IndexOf(is, c)
                 /\ \A k \in 1..Len(is) :
                       (IndexOf(is, why) < k - 1 /\ k - 1 < IndexOf(is, c)) => is[k] \in Copies
\* an instruction got no Copy because its operand is the Copy that an
\* earlier instruction made, and an earlier instruction got one
CopySuppressed ==
    /\ lpc = "refined"
    /\ \E i \in InBlocks(function) \ Copies :
          /\ function.heap[i].kind \in {"FieldAddr", "Load", "Store", "Recv", "Send", "TypeAssert"}
          /\ function.heap[i].ops[1] \in Copies
          /\ \A c \in Copies : function.heap[c].Why # i

\* the positions of x in seq, in rising order
Positions(seq, x) == SelectSeq([i \in 1..Len(seq) |-> i], LAMBDA i : seq[i] = x)
\* the successor slot of the edge that the p-th entry of b.Preds stands for:
\* the k-th entry for one predecessor is its k-th edge into b
EdgeSlot(f, b, p) ==
    LET pred == f.Blocks[b].Preds[p]
        k == Len(SelectSeq(SubSeq(f.Blocks[b].Preds, 1, p), LAMBDA q : q = pred))
    IN Positions(f.Blocks[pred].Succs, b)[k]
\* the live sigmas that this call of lift placed on the incoming edges of b,
\* in predecessor order
RECURSIVE LiveSigmasInto(_, _, _)
LiveSigmasInto(s, b, p) ==
    IF p > Len(s.f.Blocks[b].Preds) THEN <<>>
    ELSE LET slot == EdgeSlot(s.f, b, p)
             all == [k \in 1..Len(s.newSigmas[s.f.Blocks[b].Preds[p]]) |->
                        s.newSigmas[s.f.Blocks[b].Preds[p]][k].sigmas[slot]]
         IN SelectSeq(all, LAMBDA n : n # 0 /\ s.f.heap[n].live) \o LiveSigmasInto(s, b, p + 1)
\* the live phis that this call of lift placed in b
LivePhisOf(s, b) ==
    SelectSeq([k \in 1..Len(s.newPhis[b]) |-> s.newPhis[b][k].phi], LAMBDA n : s.f.heap[n].live)
\* the instructions of b that survive: no tombstone, and no RunDefers unless
\* the function defers
Survivors(s, b) ==
    SelectSeq(s.f.Blocks[b].Instrs,
              LAMBDA i : i # 0 /\ (s.usesDefer \/ s.f.heap[i].kind # "RunDefers"))
RunDefersRemoved(s, b) ==
    IF s.usesDefer THEN 0
    ELSE Len(SelectSeq(s.f.Blocks[b].Instrs,
                       LAMBDA i : i # 0 /\ s.f.heap[i].kind = "RunDefers"))
\* block b as it is to be after compaction: sigmas, phis, survivors
Compacted(s, b) ==
    (IF s.numAllocs > 0 THEN LiveSigmasInto(s, b, 1) \o LivePhisOf(s, b) ELSE <<>>)
        \o Survivors(s, b)
\* both paths, taken on block b in state s, give seq
BothPathsGive(s, b, seq) ==
    LET r == HeadOf(s, b)
        ns == NewSize(r, b)
        reused == ReuseStorage(r.s, b, r.head, Max({ns, Capacity(r.s.f.Blocks[b], 0)}))
        fresh == FreshStorage(r.s, b, r.head, ns)
    IN /\ reused = [err |-> "none", Instrs |-> seq]
       /\ fresh = [err |-> "none", Instrs |-> seq]
\* the compaction of lift has run to its end in this step
Compacts == lpc \in {"marked", "classified"} /\ lpc' = "done"
\* C29: when the compaction of lift has run, every block holds the live
\* sigmas of its incoming edges in predecessor order, then its live phis,
\* then the surviving instructions in their old order; that is what either
\* compaction path makes of the block, and its length is len(Instrs) + heads
\* - gaps - removed RunDefers.
CompactionPathsAgree ==
    [][Compacts =>
         \A b \in DOMAIN function.Blocks :
            LET s == [paths |-> <<>>] @@ LiftState
                heads == Len(Compacted(s, b)) - Len(Survivors(s, b))
            IN /\ function'.Blocks[b].Instrs = Compacted(s, b)
               /\ BothPathsGive(s, b, Compacted(s, b))
               /\ Len(Compacted(s, b)) =
                     Len(function.Blocks[b].Instrs) + heads - function.Blocks[b].gaps
                         - RunDefersRemoved(s, b)]_vars
\* some block is reached over two successor edges of one predecessor
ParallelEdges(f) ==
    \E b \in DOMAIN f.Blocks : \E p, q \in 1..Len(f.Blocks[b].Preds) :
        p # q /\ f.Blocks[b].Preds[p] = f.Blocks[b].Preds[q]
\* the two compaction paths agree on every block, on the head that lines
\* 341-374 built for it, and the block's new length is the ns of line 392
PathsGiveTheSameBlock ==
    [][Compacts =>
         \A b \in DOMAIN function.Blocks :
            LET s == [paths |-> <<>>] @@ LiftState
                r == HeadOf(s, b)
            IN /\ function'.Blocks[b].Instrs = r.head \o Survivors(s, b)
               /\ BothPathsGive(s, b, r.head \o Survivors(s, b))
               /\ Len(function'.Blocks[b].Instrs) = NewSize(r, b)
               /\ ~ParallelEdges(function) => r.head \o Survivors(s, b) = Compacted(s, b)]_vars

(***************************************************************************)
(* Properties of the binding frames                                        *)
(***************************************************************************)
\* C30: after a pop no name that was set while the popped frame was the top
\* frame is in the bindings map, whatever the number of names of the
\* pattern, with more names than a frame has bits included.
PopUnsetsFrame == \A e \in popLog : \A n \in e.named : e.after[n] = Unbound
\* a pop of a frame in which names were set has left none of them, in a Match
\* call that returned
PoppedNames ==
    /\ mpc = "matched"
    /\ \E e \in popLog : e.named # {} /\ \A n \in e.named : e.after[n] = Unbound
====
